---- MODULE Spec2Model ----
(***************************************************************************)
(* Verification model of the mavio MAVLink framing core.                   *)
(*                                                                         *)
(* These state machines share this module:                                 *)
(*   Spec     the frame API: FrameBuilder setters and build, signing,      *)
(*            signature removal, UpdateFrame, CompatProcessor, Signer.     *)
(*   SeqSpec  threads calling next() on sequencers sharing one counter.    *)
(*   SyncSpec threads calling next/advance/rewind/sync on two sequencers.  *)
(*   ForkSpec one caller forking, cloning, syncing and joining sequencers. *)
(*   EndpointSpec endpoints producing frames from one shared counter.      *)
(*   BuildSpec a frame built from chosen field values, then upgraded.      *)
(*   IoSpec   a byte stream written by send and scanned by recv; IoLive is *)
(*            IoSpec with a reader that keeps running.                     *)
(*   SendSpec a Sender of either build writing frames into a stream.       *)
(*   ScanSpec one Header::recv call on a window of junk and magic bytes.   *)
(*   BodySpec Frame::recv of either build on one frame of a chosen length. *)
(*   TimeSpec a MavTimestamp made and changed through its public methods.  *)
(*   SignSpec signature calculations over one digest provider.             *)
(* Each specification leaves the variables of the others at their initial  *)
(* value.                                                                  *)
(***************************************************************************)
EXTENDS Integers, Sequences, FiniteSets, TLC

VARIABLES
    fb,         \* the FrameBuilder in hand: <<>> or <<builder>>
    frame,      \* the Frame in hand: <<>> or <<frame>>
    last,       \* the last API operation, its arguments and its result
    nops,       \* number of operations applied to the frame in hand
    start,      \* value the first counter holds initially
    counter,    \* AtomicU8 cells: cell id -> value
    handle,     \* thread -> cell id of the Sequencer it owns (0: none yet)
    tpc,        \* thread -> position inside its current sequencer call
    tmp,        \* thread -> locals of its running sync call
    tlog,       \* thread -> values returned to it by next(), in program order
    order,      \* the atomic steps taken on the counters, in the order taken
    seen,       \* thread -> values other's counter held since its sync began
    wire,       \* bytes written to the stream so far
    closed,     \* the stream has reached its end
    rpos,       \* reader position in wire
    rtag,       \* version tag of the receiver: "V1", "V2" or "Versionless"
    sender,     \* the Sender: its version tag, and whether the build has alloc
    rpc,        \* position of the running recv call
    rloc,       \* locals of the running recv call
    rcvd,       \* results of completed recv calls, in order
    sent        \* results of send calls, in order

apiVars == <<fb, frame, last, nops>>
seqVars == <<start, counter, handle, tpc, tmp, tlog, order, seen>>
ioVars  == <<wire, closed, rpos, rtag, sender, rpc, rloc, rcvd, sent>>
vars    == <<fb, frame, last, nops, start, counter, handle, tpc, tmp, tlog, order, seen,
             wire, closed, rpos, rtag, sender, rpc, rloc, rcvd, sent>>

(***************************************************************************)
(* Program constants                                                       *)
(***************************************************************************)
STX_V1 == 254
STX_V2 == 253
HEADER_V1_SIZE == 6
HEADER_V2_SIZE == 10
HEADER_MIN_SIZE == HEADER_V1_SIZE
HEADER_MAX_SIZE == HEADER_V2_SIZE
CHECKSUM_SIZE == 2
MAVLINK_IFLAG_SIGNED == 1
SIGNATURE_LINK_ID_LENGTH == 1
SIGNATURE_TIMESTAMP_LENGTH == 6
SIGNATURE_VALUE_LENGTH == 6
SIGNATURE_LENGTH ==
    SIGNATURE_LINK_ID_LENGTH + SIGNATURE_TIMESTAMP_LENGTH + SIGNATURE_VALUE_LENGTH
SIGNATURE_SECRET_KEY_LENGTH == 32
PAYLOAD_MAX_SIZE == 255
U8 == 256

(***************************************************************************)
(* Option values, bytes and bit operations                                 *)
(***************************************************************************)
None == <<>>
Some(x) == <<x>>
IsSome(o) == o /= <<>>
Unwrap(o) == o[1]
UnwrapOr(o, d) == IF o = <<>> THEN d ELSE o[1]

Min(a, b) == IF a < b THEN a ELSE b

RECURSIVE Xor(_, _)
Xor(a, b) ==
    IF a = 0 THEN b
    ELSE IF b = 0 THEN a
    ELSE (((a % 2) + (b % 2)) % 2) + 2 * Xor(a \div 2, b \div 2)

\* bitflags: Flags::contains(bit) and Flags::set(bit, value) for one bit
contains(flags, bit) == (flags \div bit) % 2 = 1

\* a flag setter that leaves the flags as they are
set_nothing(flags, bit, value) == flags

set(flags, bit, value) ==
    IF value THEN (IF contains(flags, bit) THEN flags ELSE flags + bit)
             ELSE (IF contains(flags, bit) THEN flags - bit ELSE flags)

\* u16::to_le_bytes / u16::from_le_bytes
u16_to_le_bytes(x) == <<(x % 256), ((x \div 256) % 256)>>
u16_from_le_bytes(b) == b[1] + 256 * b[2]

\* u32::to_le_bytes
u32_to_le_bytes(x) ==
    <<(x % 256), ((x \div 256) % 256), ((x \div 65536) % 256), ((x \div 16777216) % 256)>>

SubSeqFrom(s, from) == SubSeq(s, from, Len(s))

(***************************************************************************)
(* CRC-16/MCRF4XX (crc_any CRCu16::crc16mcrf4cc): poly 0x1021 reflected,   *)
(* init 0xFFFF, no final xor; one byte at a time.                          *)
(***************************************************************************)
crc_accumulate(crc, byte) ==
    LET t1 == Xor(byte, crc % 256)
        t2 == Xor(t1, (t1 * 16) % 256)
    IN  Xor(Xor(Xor(crc \div 256, t2 * 256), t2 * 8), t2 \div 16)

\* the bytes lo..hi fed in order, one after another; the range is halved and
\* the value after the first half is computed before the second half is
\* entered, so that a payload of 255 bytes is digested at a depth of 8
RECURSIVE crc_range(_, _, _, _)
crc_range(crc, bytes, lo, hi) ==
    IF lo > hi THEN crc
    ELSE IF lo = hi THEN crc_accumulate(crc, bytes[lo])
    ELSE LET mid == (lo + hi) \div 2
             half == crc_range(crc, bytes, lo, mid)
         IN  IF half >= 0 THEN crc_range(half, bytes, mid + 1, hi) ELSE half

crc_digest(crc, bytes) == crc_range(crc, bytes, 1, Len(bytes))

crc16mcrf4cc == 65535

(***************************************************************************)
(* Header                                                                  *)
(***************************************************************************)
\* Header::size
size(header) ==
    IF header.version = "V1" THEN HEADER_V1_SIZE ELSE HEADER_V2_SIZE

\* Header::is_signed
header_is_signed(header) ==
    IF header.version = "V1" THEN FALSE
    ELSE contains(header.incompat_flags, MAVLINK_IFLAG_SIGNED)

\* Header::set_is_signed
set_is_signed(header, flag) ==
    [header EXCEPT !.incompat_flags = set(@, MAVLINK_IFLAG_SIGNED, flag)]

\* Header::body_length
body_length(header) ==
    IF header.version = "V1" THEN header.payload_length + CHECKSUM_SIZE
    ELSE IF header_is_signed(header)
         THEN header.payload_length + CHECKSUM_SIZE + SIGNATURE_LENGTH
         ELSE header.payload_length + CHECKSUM_SIZE

\* Header::dump_v1_bytes
dump_v1_bytes(header) ==
    <<STX_V1, header.payload_length, header.sequence, header.system_id,
      header.component_id, u32_to_le_bytes(header.message_id)[1]>>

\* Header::dump_v2_bytes
dump_v2_bytes(header) ==
    <<STX_V2, header.payload_length, header.incompat_flags, header.compat_flags,
      header.sequence, header.system_id, header.component_id>>
    \o SubSeq(u32_to_le_bytes(header.message_id), 1, 3)

\* Header::decode: the header encoded as HeaderBytes::as_slice
decode(header) ==
    IF header.version = "V1" THEN dump_v1_bytes(header) ELSE dump_v2_bytes(header)

\* HeaderBytes::crc_data: everything but the magic byte
crc_data(header_bytes) == SubSeqFrom(header_bytes, 2)

\* MavSTX::from(u8).to_mavlink_version()
to_mavlink_version(byte) ==
    IF byte = STX_V1 THEN Some("V1")
    ELSE IF byte = STX_V2 THEN Some("V2")
    ELSE None

\* a decoder that reads every header with the V2 layout
try_from_slice_as_v2(bytes) ==
    [version |-> Unwrap(to_mavlink_version(bytes[1])),
     payload_length |-> bytes[2],
     incompat_flags |-> bytes[3],
     compat_flags |-> bytes[4],
     sequence |-> bytes[5],
     system_id |-> bytes[6],
     component_id |-> IF Len(bytes) >= 7 THEN bytes[7] ELSE 0,
     message_id |-> 0]

\* Header::try_from_slice: fields by wire position
try_from_slice(bytes) ==
    LET mavlink_version == Unwrap(to_mavlink_version(bytes[1]))
    IN  IF mavlink_version = "V2"
        THEN [version |-> "V2",
              payload_length |-> bytes[2],
              incompat_flags |-> bytes[3],
              compat_flags |-> bytes[4],
              sequence |-> bytes[5],
              system_id |-> bytes[6],
              component_id |-> bytes[7],
              message_id |-> bytes[8] + 256 * bytes[9] + 65536 * bytes[10]]
        ELSE [version |-> "V1",
              payload_length |-> bytes[2],
              incompat_flags |-> 0,
              compat_flags |-> 0,
              sequence |-> bytes[3],
              system_id |-> bytes[4],
              component_id |-> bytes[5],
              message_id |-> bytes[6]]

(***************************************************************************)
(* Payload (mavspec): a byte container tagged with message id and version  *)
(***************************************************************************)
Payload_new(id, bytes, version) ==
    [id |-> id,
     bytes |-> SubSeq(bytes, 1, Min(PAYLOAD_MAX_SIZE, Len(bytes))),
     version |-> version]

upgraded(payload) == [payload EXCEPT !.version = "V2"]

(***************************************************************************)
(* Signature, MavTimestamp, Sign and Signer                                *)
(***************************************************************************)
\* MavTimestamp::to_bytes_array: the low 6 bytes of raw, little-endian
to_bytes_array(raw) ==
    [i \in 1..SIGNATURE_TIMESTAMP_LENGTH |->
        IF i <= 3 THEN (raw \div (256 ^ (i - 1))) % 256 ELSE 0]

\* MavTimestamp::from_bytes
from_bytes(bytes) == bytes[1] + 256 * bytes[2] + 65536 * bytes[3]

\* Signature::to_byte_array
to_byte_array(signature) ==
    <<signature.link_id>> \o to_bytes_array(signature.timestamp) \o signature.value

\* Signature::from_slice
from_slice(bytes) ==
    [link_id |-> bytes[1],
     timestamp |-> from_bytes(SubSeq(bytes, 2, 7)),
     value |-> SubSeq(bytes, 8, 13)]

\* An implementor of Sign: reset, digest and produce. Signer takes any
\* `dyn Sign`; the hasher here keeps a 15-bit rolling hash that depends on
\* every byte fed and on its position, and produce pads it to 6 bytes.
sign_reset == 0
\* the hasher folds every byte b into its state as state * 31 + b + 1 (mod 2^15);
\* sign_fold computes that fold over bytes[lo..hi] by halves
RECURSIVE sign_pow(_)
sign_pow(k) ==
    IF k = 0 THEN 1
    ELSE LET h == sign_pow(k \div 2)
         IN  (((h * h) % 32768) * (IF k % 2 = 1 THEN 31 ELSE 1)) % 32768
RECURSIVE sign_fold(_, _, _)
sign_fold(bytes, lo, hi) ==
    IF lo > hi THEN 0
    ELSE IF lo = hi THEN bytes[lo] + 1
    ELSE LET mid == (lo + hi) \div 2
         IN  (sign_fold(bytes, lo, mid) * sign_pow(hi - mid)
                + sign_fold(bytes, mid + 1, hi)) % 32768
sign_digest(state, bytes) ==
    (state * sign_pow(Len(bytes)) + sign_fold(bytes, 1, Len(bytes))) % 32768
sign_produce(state) ==
    <<(state % 256), ((state \div 256) % 256), 0, 0, 0, 0>>

\* Frame::is_signed
\* a frame taken for signed when its header says so
is_signed_by_header(f) == header_is_signed(f.header)

\* Frame::is_signed
is_signed(f) == IsSome(f.signature)

\* a version marker that accepts every version
expect_anything(tag, version) == <<"Ok">>

\* MaybeVersioned::expect of the markers V1, V2 and Versionless
expect(tag, version) ==
    IF tag = "Versionless" \/ tag = version THEN <<"Ok">>
    ELSE <<"Err", "InvalidVersion", tag, version>>

\* Header::try_into_versioned: the header rebuilt under the marker asked for
try_into_versioned(header, tag) ==
    LET e == expect(tag, header.version)
    IN  IF e[1] = "Err" THEN e
        ELSE <<"Ok", [version |-> header.version,
                      payload_length |-> header.payload_length,
                      incompat_flags |-> header.incompat_flags,
                      compat_flags |-> header.compat_flags,
                      sequence |-> header.sequence,
                      system_id |-> header.system_id,
                      component_id |-> header.component_id,
                      message_id |-> header.message_id]>>

\* Header::into_versionless
into_versionless(header) ==
    [version |-> header.version,
     payload_length |-> header.payload_length,
     incompat_flags |-> header.incompat_flags,
     compat_flags |-> header.compat_flags,
     sequence |-> header.sequence,
     system_id |-> header.system_id,
     component_id |-> header.component_id,
     message_id |-> header.message_id]

\* a version test that takes every frame for the version asked about
matches_any_version(f, version) == TRUE

\* Frame::matches_version
matches_version(f, version) == f.header.version = version

\* Signer::calculate
calculate(f, link_id, timestamp, key) ==
    LET s0 == sign_reset
        s1 == sign_digest(s0, key)
        s2 == sign_digest(s1, decode(f.header))
        s3 == sign_digest(s2, f.payload.bytes)
        s4 == sign_digest(s3, u16_to_le_bytes(f.checksum))
        s5 == sign_digest(s4, <<link_id>>)
        s6 == sign_digest(s5, to_bytes_array(timestamp))
    IN  sign_produce(s6)

\* Signer::validate
validate(f, signature, key) ==
    LET expected_value == calculate(f, signature.link_id, signature.timestamp, key)
    IN  expected_value /= signature.value

\* SignatureConf::apply
apply(conf, f) ==
    IF ~matches_version(f, "V2") THEN f
    ELSE LET value == calculate(f, conf.link_id, conf.timestamp, conf.secret)
         IN  [f EXCEPT !.signature = Some([link_id |-> conf.link_id,
                                           timestamp |-> conf.timestamp,
                                           value |-> value])]

(***************************************************************************)
(* Frame                                                                   *)
(***************************************************************************)
\* Frame::calculate_crc
calculate_crc(f, crc_extra) ==
    crc_digest(crc_digest(crc_digest(crc16mcrf4cc, crc_data(decode(f.header))),
                          f.payload.bytes),
               <<crc_extra>>)

\* Frame::remove_signature
remove_signature(f) ==
    [f EXCEPT !.signature = None, !.header = set_is_signed(@, FALSE)]

\* Frame::validate_can_be_signed
validate_can_be_signed(f) ==
    IF f.header.version = "V1" THEN <<"Err", "SigningIsNotSupported">>
    ELSE <<"Ok">>

\* Frame::calculate_signature
calculate_signature(f, secret_key) ==
    IF ~IsSome(f.signature) THEN <<"Err", "SignatureFieldsAreMissing">>
    ELSE LET s0 == sign_reset
             s1 == sign_digest(s0, secret_key)
             s2 == sign_digest(s1, decode(f.header))
             s3 == sign_digest(s2, f.payload.bytes)
             s4 == sign_digest(s3, u16_to_le_bytes(f.checksum))
             s5 == sign_digest(s4, <<Unwrap(f.signature).link_id>>)
             s6 == sign_digest(s5, to_bytes_array(Unwrap(f.signature).timestamp))
         IN  <<"Ok", sign_produce(s6)>>

\* Frame::add_signature: the frame afterwards and the result
add_signature(f, conf) ==
    IF validate_can_be_signed(f) /= <<"Ok">>
    THEN [frame |-> f, result |-> validate_can_be_signed(f)]
    ELSE LET f1 == [f EXCEPT !.header = set_is_signed(@, TRUE)]
             f2 == [f1 EXCEPT !.signature =
                       Some([link_id |-> conf.link_id,
                             timestamp |-> conf.timestamp,
                             value |-> <<0, 0, 0, 0, 0, 0>>])]
             signature_bytes == calculate_signature(f2, conf.secret)
         IN  IF signature_bytes[1] = "Ok"
             THEN [frame |-> [f2 EXCEPT !.signature =
                                 Some([Unwrap(@) EXCEPT !.value = signature_bytes[2]])],
                   result |-> <<"Ok">>]
             ELSE [frame |-> f2, result |-> signature_bytes]


(***************************************************************************)
(* HeaderBuilder                                                           *)
(***************************************************************************)
\* HeaderBuilder::new
HeaderBuilder_new ==
    [version |-> "Versionless", payload_length |-> None, incompat_flags |-> None,
     compat_flags |-> None, sequence |-> None, system_id |-> None,
     component_id |-> None, message_id |-> None]

\* HeaderBuilder::version. from_v1_to_v2 asks the target marker to match V1
\* and to be V2 at once, which no marker does.
hb_version(hb, version) ==
    LET from_v1_to_v2 == (version = "V1") /\ (version = "V2")
        header == [hb EXCEPT !.version = version]
        h1 == IF version = "V1"
              THEN [header EXCEPT !.incompat_flags = None, !.compat_flags = None]
              ELSE header
    IN  IF from_v1_to_v2
        THEN [h1 EXCEPT !.incompat_flags = Some(UnwrapOr(@, 0)),
                        !.compat_flags = Some(UnwrapOr(@, 0))]
        ELSE h1

\* HeaderBuilder::incompat_flags
hb_incompat_flags(hb, incompat_flags) ==
    [hb_version(hb, "V2") EXCEPT !.incompat_flags = Some(incompat_flags)]

\* HeaderBuilder::compat_flags
hb_compat_flags(hb, compat_flags) ==
    [hb_version(hb, "V2") EXCEPT !.compat_flags = Some(compat_flags)]

\* HeaderBuilder::set_is_signed_no_v2
set_is_signed_no_v2(hb, flag) ==
    [hb_version(hb, "V2") EXCEPT
        !.incompat_flags = Some(set(0, MAVLINK_IFLAG_SIGNED, flag)),
        !.compat_flags = Some(0)]

\* The closure of HeaderBuilder<V2>::signed: it sets the bit on a clone of
\* the flags and yields the flags it was given.
signed_closure(flags, flag) ==
    LET cloned == set(flags, MAVLINK_IFLAG_SIGNED, flag)
    IN  flags

\* HeaderBuilder::signed, for each version marker
signed(hb, flag) ==
    IF hb.version = "V2"
    THEN LET this == hb_version(hb, "V2")
         IN  [this EXCEPT !.incompat_flags =
                 IF IsSome(@) THEN Some(signed_closure(Unwrap(@), flag)) ELSE None]
    ELSE set_is_signed_no_v2(hb, flag)

\* HeaderBuilder::build
hb_build(hb) ==
    [version |-> hb.version,
     payload_length |-> Unwrap(hb.payload_length),
     incompat_flags |-> UnwrapOr(hb.incompat_flags, 0),
     compat_flags |-> UnwrapOr(hb.compat_flags, 0),
     sequence |-> Unwrap(hb.sequence),
     system_id |-> Unwrap(hb.system_id),
     component_id |-> Unwrap(hb.component_id),
     message_id |-> Unwrap(hb.message_id)]

(***************************************************************************)
(* FrameBuilder                                                            *)
(***************************************************************************)
\* FrameBuilder::new
FrameBuilder_new ==
    [header_builder |-> HeaderBuilder_new, payload |-> None, crc_extra |-> None,
     signature |-> None]

\* FrameBuilder::sequence
fb_sequence(b, sequence) ==
    [b EXCEPT !.header_builder.sequence = Some(sequence), !.signature = None]

\* FrameBuilder::system_id
fb_system_id(b, system_id) ==
    [b EXCEPT !.header_builder.system_id = Some(system_id), !.signature = None]

\* FrameBuilder::component_id
fb_component_id(b, component_id) ==
    [b EXCEPT !.header_builder.component_id = Some(component_id)]

\* FrameBuilder::message_id
fb_message_id(b, message_id) ==
    [b EXCEPT !.header_builder.message_id = Some(message_id),
              !.crc_extra = None, !.signature = None]

\* a setter that takes the payload length from the slice it was given
\* instead of from the payload it stored
fb_payload_len_of_slice(b, bytes) ==
    LET payload == Payload_new(Unwrap(b.header_builder.message_id), bytes,
                               b.header_builder.version)
    IN  [b EXCEPT !.header_builder.message_id = Some(payload.id),
                  !.header_builder.payload_length = Some(Len(bytes) % U8),
                  !.payload = Some(payload),
                  !.signature = None]

\* FrameBuilder::payload
fb_payload(b, bytes) ==
    LET payload == Payload_new(Unwrap(b.header_builder.message_id), bytes,
                               b.header_builder.version)
    IN  [b EXCEPT !.header_builder.message_id = Some(payload.id),
                  !.header_builder.payload_length = Some(Len(payload.bytes)),
                  !.payload = Some(payload),
                  !.signature = None]

\* FrameBuilder::crc_extra
fb_crc_extra(b, crc_extra) == [b EXCEPT !.crc_extra = Some(crc_extra)]

\* FrameBuilder::version
fb_version(b, version) ==
    [b EXCEPT !.header_builder = hb_version(@, version)]

\* FrameBuilder::incompat_flags
fb_incompat_flags(b, incompat_flags) ==
    [b EXCEPT !.header_builder =
        signed(hb_incompat_flags(@, incompat_flags), IsSome(b.signature))]

\* FrameBuilder::compat_flags
fb_compat_flags(b, compat_flags) ==
    [b EXCEPT !.header_builder = hb_compat_flags(@, compat_flags)]

\* FrameBuilder::signature
fb_signature(b, signature) ==
    [b EXCEPT !.header_builder = signed(@, TRUE), !.signature = Some(signature)]

\* an upgrade that hands the builder back as it was
upgrade_in_place(b) == b

\* FrameBuilder::upgrade
upgrade(b) ==
    LET payload == upgraded(Unwrap(b.payload))
    IN  [b EXCEPT !.header_builder =
                      [version |-> "V2",
                       payload_length |-> Some(Len(payload.bytes)),
                       incompat_flags |-> Some(0),
                       compat_flags |-> Some(0),
                       sequence |-> b.header_builder.sequence,
                       system_id |-> b.header_builder.system_id,
                       component_id |-> b.header_builder.component_id,
                       message_id |-> b.header_builder.message_id],
                  !.payload = Some(payload),
                  !.signature = None]

\* The type-state bound of FrameBuilder::build: every required field is set
can_build(b) ==
    /\ b.header_builder.version \in {"V1", "V2"}
    /\ IsSome(b.header_builder.payload_length)
    /\ IsSome(b.header_builder.sequence)
    /\ IsSome(b.header_builder.system_id)
    /\ IsSome(b.header_builder.component_id)
    /\ IsSome(b.header_builder.message_id)
    /\ IsSome(b.payload)
    /\ IsSome(b.crc_extra)

\* FrameBuilder::build
build(b) ==
    LET f0 == [header |-> hb_build(b.header_builder),
               payload |-> Unwrap(b.payload),
               checksum |-> 0,
               signature |-> None]
    IN  [f0 EXCEPT !.checksum = calculate_crc(f0, Unwrap(b.crc_extra))]

(***************************************************************************)
(* UpdateFrame                                                             *)
(***************************************************************************)
\* UpdateFrame::update_unchecked, for an updater that leaves the frame with
\* payload bytes, checksum and signature as given
update_unchecked(f, bytes, checksum, signature) ==
    LET f1 == [f EXCEPT !.payload.bytes = bytes, !.checksum = checksum,
                        !.signature = signature]
    IN  IF f1.header.version = "V1"
        THEN [f1 EXCEPT !.signature = None]
        ELSE [f1 EXCEPT !.header = set_is_signed(@, IsSome(f1.signature))]

\* UpdateFrame::update
update(f, bytes, checksum, signature, crc_extra) ==
    LET f1 == update_unchecked(f, bytes, checksum, signature)
    IN  [f1 EXCEPT !.checksum = calculate_crc(f1, crc_extra)]

(***************************************************************************)
(* CompatProcessor                                                         *)
(***************************************************************************)
\* CompatProcessor::process_for_strategy: the frame afterwards and the result
process_for_strategy(proc, f, strategy) ==
    IF ~matches_version(f, "V2") THEN [frame |-> f, result |-> <<"Ok">>]
    ELSE
      LET f1 == IF IsSome(proc.compat_flags) /\ strategy \in {"Enforce", "RejectSet"}
                THEN [f EXCEPT !.header.compat_flags = Unwrap(proc.compat_flags)]
                ELSE f
      IN  IF ~IsSome(proc.incompat_flags) THEN [frame |-> f1, result |-> <<"Ok">>]
          ELSE
            LET incompat_flags ==
                    IF proc.ignore_signature
                    THEN set(Unwrap(proc.incompat_flags), MAVLINK_IFLAG_SIGNED,
                             is_signed(f1))
                    ELSE Unwrap(proc.incompat_flags)
            IN  IF strategy \in {"Reject", "RejectSet"}
                THEN IF incompat_flags /= f1.header.incompat_flags
                     THEN [frame |-> f1,
                           result |-> <<"Incompatible", incompat_flags,
                                        f1.header.incompat_flags>>]
                     ELSE [frame |-> f1, result |-> <<"Ok">>]
                ELSE IF strategy \in {"Enforce", "EnforceProxy"}
                THEN [frame |-> [f1 EXCEPT !.header.incompat_flags = incompat_flags],
                      result |-> <<"Ok">>]
                ELSE [frame |-> f1, result |-> <<"Ok">>]


(***************************************************************************)
(* Input values                                                            *)
(***************************************************************************)
Versions == {"V1", "V2"}
Tags == {"V1", "V2", "Versionless"}
Sequences == {1}
SystemIds == {10}
ComponentIds == {255}
MessageIds == {0}
Payloads == {<<>>, <<7>>}
CrcExtras == {50}
IncompatFlagSet == {0, 1, 2, 3}
CompatFlagSet == {0, 4}
LinkIds == {0}
Timestamps == {5}
SecretKeys == {[i \in 1..SIGNATURE_SECRET_KEY_LENGTH |-> 255],
               [i \in 1..SIGNATURE_SECRET_KEY_LENGTH |-> 0]}
SignatureConfs ==
    [link_id : LinkIds, timestamp : {0}, secret : SecretKeys]
\* signatures handed to FrameBuilder::signature and attached by updaters
RawSignatures ==
    {[link_id |-> 0, timestamp |-> t, value |-> <<9, 0, 0, 0, 0, 0>>] : t \in Timestamps}
Strategies == {"Reject", "RejectSet", "Enforce", "EnforceProxy", "Proxy"}
Processors ==
    [incompat_flags : {None, Some(0), Some(3)},
     compat_flags : {None, Some(4)},
     ignore_signature : BOOLEAN]
\* payload bytes an updater leaves behind: the same length, bits flipped or not
flip(bytes) == [i \in 1..Len(bytes) |-> 255 - bytes[i]]

\* bound on the operations applied to one frame after it is built
MaxOps == 2

(***************************************************************************)
(* Initial values of the three variable groups                             *)
(***************************************************************************)
NoOp == [op |-> "none"]

ApiIdle ==
    /\ fb = Some(FrameBuilder_new)
    /\ frame = None
    /\ last = NoOp
    /\ nops = 0

Threads == {"a", "b"}

NoSync == [self |-> 0, other |-> 0, value |-> 0]

\* thread "a" owns Sequencer::init(value); thread "b" has none yet
SeqStart(value) ==
    /\ start = value
    /\ counter = <<value>>
    /\ handle = [t \in Threads |-> IF t = "a" THEN 1 ELSE 0]
    /\ tpc = [t \in Threads |-> "idle"]
    /\ tmp = [t \in Threads |-> NoSync]
    /\ tlog = [t \in Threads |-> <<>>]
    /\ order = <<>>
    /\ seen = [t \in Threads |-> {}]

SeqIdle == SeqStart(0)

NoLocals == [start |-> 0, header_start |-> None, header |-> None]

\* Sender::versionless in a build with the alloc feature
AllocSender == [version |-> "Versionless", alloc |-> TRUE]

IoIdle ==
    /\ wire = <<>>
    /\ closed = FALSE
    /\ rpos = 0
    /\ rtag = "Versionless"
    /\ sender = AllocSender
    /\ rpc = "idle"
    /\ rloc = NoLocals
    /\ rcvd = <<>>
    /\ sent = <<>>

(***************************************************************************)
(* Spec: the frame API                                                     *)
(***************************************************************************)
Init == ApiIdle /\ SeqIdle /\ IoIdle

\* Frame::builder(): start over with an empty builder
Builder ==
    /\ fb' = Some(FrameBuilder_new)
    /\ frame' = None
    /\ last' = [op |-> "builder"]
    /\ nops' = 0
    /\ UNCHANGED <<seqVars, ioVars>>

\* a setter consumes the builder and yields the next one; last keeps the
\* argument and whether the consumed builder carried a signature
SetBuilder(b, op, arg) ==
    /\ fb' = Some(b)
    /\ frame' = None
    /\ last' = [op |-> op, arg |-> arg,
                had_signature |-> IsSome(Unwrap(fb).signature)]
    /\ nops' = 0
    /\ UNCHANGED <<seqVars, ioVars>>

FbVersion ==
    /\ IsSome(fb)
    /\ Unwrap(fb).header_builder.version = "Versionless"
    /\ \E v \in Versions : SetBuilder(fb_version(Unwrap(fb), v), "version", v)

FbSequence ==
    /\ IsSome(fb)
    /\ \E x \in Sequences : SetBuilder(fb_sequence(Unwrap(fb), x), "sequence", x)

FbSystemId ==
    /\ IsSome(fb)
    /\ \E x \in SystemIds : SetBuilder(fb_system_id(Unwrap(fb), x), "system_id", x)

FbComponentId ==
    /\ IsSome(fb)
    /\ \E x \in ComponentIds :
          SetBuilder(fb_component_id(Unwrap(fb), x), "component_id", x)

FbMessageId ==
    /\ IsSome(fb)
    /\ ~IsSome(Unwrap(fb).header_builder.message_id)
    /\ \E x \in MessageIds : SetBuilder(fb_message_id(Unwrap(fb), x), "message_id", x)

FbPayload ==
    /\ IsSome(fb)
    /\ Unwrap(fb).header_builder.version \in Versions
    /\ IsSome(Unwrap(fb).header_builder.message_id)
    /\ \E x \in Payloads : SetBuilder(fb_payload(Unwrap(fb), x), "payload", x)

FbCrcExtra ==
    /\ IsSome(fb)
    /\ ~IsSome(Unwrap(fb).crc_extra)
    /\ \E x \in CrcExtras : SetBuilder(fb_crc_extra(Unwrap(fb), x), "crc_extra", x)

FbIncompatFlags ==
    /\ IsSome(fb)
    /\ Unwrap(fb).header_builder.version = "V2"
    /\ \E x \in IncompatFlagSet :
          SetBuilder(fb_incompat_flags(Unwrap(fb), x), "incompat_flags", x)

FbCompatFlags ==
    /\ IsSome(fb)
    /\ Unwrap(fb).header_builder.version = "V2"
    /\ \E x \in CompatFlagSet :
          SetBuilder(fb_compat_flags(Unwrap(fb), x), "compat_flags", x)

FbSignature ==
    /\ IsSome(fb)
    /\ Unwrap(fb).header_builder.version = "V2"
    /\ \E x \in RawSignatures :
          SetBuilder(fb_signature(Unwrap(fb), x), "signature", x)

FbUpgrade ==
    /\ IsSome(fb)
    /\ can_build(Unwrap(fb))
    /\ Unwrap(fb).header_builder.version = "V1"
    /\ ~IsSome(Unwrap(fb).signature)
    /\ SetBuilder(upgrade(Unwrap(fb)), "upgrade", None)

\* FrameBuilder::build consumes the builder and yields the frame
FbBuild ==
    /\ IsSome(fb)
    /\ can_build(Unwrap(fb))
    /\ frame' = Some(build(Unwrap(fb)))
    /\ fb' = None
    /\ last' = [op |-> "build", signature |-> Unwrap(fb).signature]
    /\ nops' = 0
    /\ UNCHANGED <<seqVars, ioVars>>

\* SignatureConf::apply on the frame in hand
Sign ==
    /\ IsSome(frame)
    /\ nops < MaxOps
    /\ \E conf \in SignatureConfs :
          /\ frame' = Some(apply(conf, Unwrap(frame)))
          /\ last' = [op |-> "sign", conf |-> conf]
    /\ nops' = nops + 1
    /\ UNCHANGED <<fb, seqVars, ioVars>>

\* Frame::add_signature on the frame in hand
AddSignature ==
    /\ IsSome(frame)
    /\ nops < MaxOps
    /\ \E conf \in SignatureConfs :
          LET r == add_signature(Unwrap(frame), conf)
          IN  /\ frame' = Some(r.frame)
              /\ last' = [op |-> "add_signature", conf |-> conf, result |-> r.result]
    /\ nops' = nops + 1
    /\ UNCHANGED <<fb, seqVars, ioVars>>

\* Frame::remove_signature
RemoveSignature ==
    /\ IsSome(frame)
    /\ nops < MaxOps
    /\ frame' = Some(remove_signature(Unwrap(frame)))
    /\ last' = [op |-> "remove_signature"]
    /\ nops' = nops + 1
    /\ UNCHANGED <<fb, seqVars, ioVars>>

\* what an updater may leave in the frame's payload bytes and signature
UpdaterBytes(f) == {f.payload.bytes, flip(f.payload.bytes)}
UpdaterSignatures(f) == {None, f.signature} \cup {Some(x) : x \in RawSignatures}

\* UpdateFrame::update with some updater
Update ==
    /\ IsSome(frame)
    /\ nops < MaxOps
    /\ \E bytes \in UpdaterBytes(Unwrap(frame)),
          signature \in UpdaterSignatures(Unwrap(frame)),
          crc_extra \in CrcExtras :
          /\ frame' = Some(update(Unwrap(frame), bytes, 0, signature, crc_extra))
          /\ last' = [op |-> "update", crc_extra |-> crc_extra]
    /\ nops' = nops + 1
    /\ UNCHANGED <<fb, seqVars, ioVars>>

\* UpdateFrame::update_unchecked with some updater
UpdateUnchecked ==
    /\ IsSome(frame)
    /\ nops < MaxOps
    /\ \E bytes \in UpdaterBytes(Unwrap(frame)),
          signature \in UpdaterSignatures(Unwrap(frame)) :
          /\ frame' = Some(update_unchecked(Unwrap(frame), bytes,
                                            Unwrap(frame).checksum, signature))
          /\ last' = [op |-> "update_unchecked"]
    /\ nops' = nops + 1
    /\ UNCHANGED <<fb, seqVars, ioVars>>

\* CompatProcessor::process_incoming / process_outgoing
Process ==
    /\ IsSome(frame)
    /\ nops < MaxOps
    /\ \E proc \in Processors, strategy \in Strategies :
          LET r == process_for_strategy(proc, Unwrap(frame), strategy)
          IN  /\ frame' = Some(r.frame)
              /\ last' = [op |-> "process", proc |-> proc, strategy |-> strategy,
                          result |-> r.result]
    /\ nops' = nops + 1
    /\ UNCHANGED <<fb, seqVars, ioVars>>

\* Header::try_to_versioned::<tag> on the header of the frame in hand
TryToVersioned ==
    /\ IsSome(frame)
    /\ nops < MaxOps
    /\ \E tag \in Tags :
          last' = [op |-> "try_to_versioned", tag |-> tag,
                   result |-> try_into_versioned(Unwrap(frame).header, tag)]
    /\ nops' = nops + 1
    /\ UNCHANGED <<fb, frame, seqVars, ioVars>>

\* Header::to_versionless on the header of the frame in hand
ToVersionless ==
    /\ IsSome(frame)
    /\ nops < MaxOps
    /\ last' = [op |-> "to_versionless",
                result |-> into_versionless(Unwrap(frame).header)]
    /\ nops' = nops + 1
    /\ UNCHANGED <<fb, frame, seqVars, ioVars>>

\* the revisions of the crate: SecretKey is the array type itself in the
\* old one and a wrapper with a Debug of its own in the new one
Revisions == {"old", "new"}

\* Debug for SecretKey: `SecretKey { .. }`; Debug of [u8; 32] lists the bytes
Debug_SecretKey(revision, key) ==
    IF revision = "new" THEN <<"SecretKey { .. }">>
    ELSE <<"[">> \o key \o <<"]">>

\* Debug for SignatureConf
Debug_SignatureConf(conf) ==
    <<"SignatureConf { link_id: ", conf.link_id,
      ", timestamp: MavTimestamp { raw: ", conf.timestamp,
      " }, secret: [0xff; ", SIGNATURE_SECRET_KEY_LENGTH, "] }">>

\* a signing configuration and its key are formatted with {:?}
DebugConf ==
    /\ IsSome(frame)
    /\ nops < MaxOps
    /\ \E conf \in SignatureConfs, revision \in Revisions :
          last' = [op |-> "debug", conf |-> conf, revision |-> revision,
                   secret |-> Debug_SecretKey(revision, conf.secret),
                   text |-> Debug_SignatureConf(conf)]
    /\ nops' = nops + 1
    /\ UNCHANGED <<fb, frame, seqVars, ioVars>>

\* Signer::validate of the frame's own signature against a key
Validate ==
    /\ IsSome(frame)
    /\ IsSome(Unwrap(frame).signature)
    /\ \E key \in SecretKeys :
          last' = [op |-> "validate", key |-> key,
                   result |-> validate(Unwrap(frame), Unwrap(Unwrap(frame).signature),
                                       key)]
    /\ UNCHANGED <<fb, frame, nops, seqVars, ioVars>>

Next ==
    \/ Builder
    \/ FbVersion
    \/ FbSequence
    \/ FbSystemId
    \/ FbComponentId
    \/ FbMessageId
    \/ FbPayload
    \/ FbCrcExtra
    \/ FbIncompatFlags
    \/ FbCompatFlags
    \/ FbSignature
    \/ FbUpgrade
    \/ FbBuild
    \/ Sign
    \/ AddSignature
    \/ RemoveSignature
    \/ Update
    \/ UpdateUnchecked
    \/ Process
    \/ TryToVersioned
    \/ ToVersionless
    \/ DebugConf
    \/ Validate

Spec == Init /\ [][Next]_vars

(***************************************************************************)
(* BuildSpec: one frame assembled from a chosen set of field values, the   *)
(* setters called in any order the type-state allows, and a V1 frame       *)
(* upgraded through its builder                                            *)
(***************************************************************************)
\* Header::to_builder
to_builder(header) ==
    [version |-> header.version,
     payload_length |-> Some(header.payload_length),
     incompat_flags |-> Some(set(header.incompat_flags, MAVLINK_IFLAG_SIGNED, FALSE)),
     compat_flags |-> Some(header.compat_flags),
     sequence |-> Some(header.sequence),
     system_id |-> Some(header.system_id),
     component_id |-> Some(header.component_id),
     message_id |-> Some(header.message_id)]

\* Frame::to_builder: a complete unsigned builder holding the frame's header
\* fields and payload, and the CRC_EXTRA of the frame's message
frame_to_builder(f, crc_extra) ==
    [header_builder |-> to_builder(f.header),
     payload |-> Some(f.payload),
     crc_extra |-> Some(crc_extra),
     signature |-> None]

\* payloads of the largest size and of one byte more
FullPayload == [i \in 1..PAYLOAD_MAX_SIZE |-> 1]
LongPayload == [i \in 1..(PAYLOAD_MAX_SIZE + 1) |-> 1]

BuildSettings ==
    [version : Versions,
     sequence : {0, 255},
     system_id : SystemIds,
     component_id : ComponentIds,
     message_id : {0, 300},
     payload : {<<>>, <<7>>, <<253, 254>>, FullPayload, LongPayload},
     crc_extra : CrcExtras]

BuildInit ==
    /\ fb = Some(FrameBuilder_new)
    /\ frame = None
    /\ \E settings \in BuildSettings :
          last = [op |-> "settings", settings |-> settings, done |-> {}]
    /\ nops = 0
    /\ SeqIdle
    /\ IoIdle

\* the setter of a field not yet set is called with the chosen value;
\* message_id resets crc_extra, which has to be set again
BsPending(field) == IsSome(fb) /\ field \notin last.done

BsSet(b, field) ==
    /\ fb' = Some(b)
    /\ last' = [last EXCEPT !.op = field,
                            !.done = (@ \cup {field}) \
                                     (IF field = "message_id" THEN {"crc_extra"}
                                      ELSE {})]
    /\ UNCHANGED <<frame, nops, seqVars, ioVars>>

BsVersion ==
    /\ BsPending("version")
    /\ BsSet(fb_version(Unwrap(fb), last.settings.version), "version")

BsSequence ==
    /\ BsPending("sequence")
    /\ BsSet(fb_sequence(Unwrap(fb), last.settings.sequence), "sequence")

BsSystemId ==
    /\ BsPending("system_id")
    /\ BsSet(fb_system_id(Unwrap(fb), last.settings.system_id), "system_id")

BsComponentId ==
    /\ BsPending("component_id")
    /\ BsSet(fb_component_id(Unwrap(fb), last.settings.component_id),
             "component_id")

BsMessageId ==
    /\ BsPending("message_id")
    /\ BsSet(fb_message_id(Unwrap(fb), last.settings.message_id), "message_id")

BsPayload ==
    /\ BsPending("payload")
    /\ {"version", "message_id"} \subseteq last.done
    /\ BsSet(fb_payload(Unwrap(fb), last.settings.payload), "payload")

BsCrcExtra ==
    /\ BsPending("crc_extra")
    /\ BsSet(fb_crc_extra(Unwrap(fb), last.settings.crc_extra), "crc_extra")

BsBuild ==
    /\ IsSome(fb)
    /\ can_build(Unwrap(fb))
    /\ frame' = Some(build(Unwrap(fb)))
    /\ fb' = None
    /\ last' = [last EXCEPT !.op = "build"]
    /\ UNCHANGED <<nops, seqVars, ioVars>>

\* frame.to_builder().upgrade().build() on the V1 frame just built
BsUpgrade ==
    /\ IsSome(frame)
    /\ last.op = "build"
    /\ Unwrap(frame).header.version = "V1"
    /\ frame' = Some(build(upgrade(frame_to_builder(Unwrap(frame),
                                                    last.settings.crc_extra))))
    /\ last' = [last EXCEPT !.op = "upgrade"]
    /\ UNCHANGED <<fb, nops, seqVars, ioVars>>

BuildNext ==
    \/ BsVersion
    \/ BsSequence
    \/ BsSystemId
    \/ BsComponentId
    \/ BsMessageId
    \/ BsPayload
    \/ BsCrcExtra
    \/ BsBuild
    \/ BsUpgrade

BuildSpec == BuildInit /\ [][BuildNext]_vars

(***************************************************************************)
(* Sequencer: operations on one AtomicU8 cell                              *)
(***************************************************************************)
\* bounds of the sequencer specifications
MaxCalls == 3
MaxSteps == 3

\* a fetch_add whose sum is not reduced to eight bits
fetch_add_unwrapped(value, n) == [ret |-> value, new |-> value + n]

\* AtomicU8::fetch_add(n): the value before, and the wrapped sum stored
fetch_add(value, n) == [ret |-> value, new |-> (value + n) % U8]

\* a next_value that stops at u8::MAX instead of wrapping
next_value_saturating(value) ==
    [ret |-> value, new |-> IF value + 1 < U8 THEN value + 1 ELSE value]

\* Sequencer::next_value
next_value(value) == fetch_add(value, 1)

\* Sequencer::current
current(value) == value

\* a rewind that leaves the cell as it is
rewind_nothing(value, to) == value

\* Sequencer::rewind stores its argument whatever the cell held
rewind(value, to) == to

\* Sequencer::advance: fetch_add, then `+ increment` on the returned u8,
\* which panics in a build with overflow checks and wraps in one without
advance(value, increment) ==
    LET r == fetch_add(value, increment)
    IN  [new |-> r.new,
         rets |-> IF r.ret + increment < U8
                  THEN {<<"ok", r.ret + increment>>}
                  ELSE {<<"panic">>, <<"ok", (r.ret + increment) % U8>>}]

\* a clone that gets a counter of its own (cells are numbered 1 and 2)
clone_detached(cell) == 3 - cell

\* Clone for Sequencer: the clone holds the same Arc, hence the same cell
clone(cell) == cell

\* a sync that reads its own counter instead of other's
sync_current_of_self(cells, self, other) == current(cells[self])

\* Sequencer::sync reads other.current(), the argument of self.rewind
sync_current(cells, self, other) == current(cells[other])

\* values the sequencers are constructed with, rewound to and advanced by
InitialValues == {0, 254, 255}
RewindValues == {9}
Increments == {2}

\* every running sync whose `other` is the cell sees the value just stored
Observe(cell, value) ==
    [t \in Threads |->
        IF tpc[t] = "loaded" /\ tmp[t].other = cell
        THEN seen[t] \cup {value} ELSE seen[t]]

(***************************************************************************)
(* SeqSpec: threads calling next() on sequencers sharing one counter       *)
(***************************************************************************)
SeqInit ==
    /\ ApiIdle
    /\ \E value \in InitialValues : SeqStart(value)
    /\ IoIdle

\* thread b receives a.clone()
Clone ==
    /\ handle["b"] = 0
    /\ handle' = [handle EXCEPT !["b"] = clone(handle["a"])]
    /\ UNCHANGED <<start, counter, tpc, tmp, tlog, order, seen, apiVars, ioVars>>

\* thread t calls next() on its sequencer
SeqNext(t) ==
    /\ handle[t] /= 0
    /\ Len(tlog[t]) < MaxCalls
    /\ LET cell == handle[t]
           r == next_value(counter[cell])
       IN  /\ counter' = [counter EXCEPT ![cell] = r.new]
           /\ tlog' = [tlog EXCEPT ![t] = Append(@, r.ret)]
           /\ order' = Append(order, [thread |-> t, op |-> "next", cell |-> cell,
                                      ret |-> r.ret, new |-> r.new])
    /\ UNCHANGED <<start, handle, tpc, tmp, seen, apiVars, ioVars>>

SeqStep ==
    \/ Clone
    \/ \E t \in Threads : SeqNext(t)

SeqSpec == SeqInit /\ [][SeqStep]_vars

\* the values returned by the steps of one thread, in the order taken
ReturnedTo(t) ==
    LET steps == SelectSeq(order, LAMBDA e : e.thread = t)
    IN  [i \in 1..Len(steps) |-> steps[i].ret]

\* C2: concurrent next() calls on sequencers sharing one counter lose no
\* increment (after k calls from c the counter is (c + k) mod 256), return
\* pairwise distinct values while no more than 256 apart, and each thread
\* receives its values in program order within the counter's one total order.
C2_NextIsAtomicFetchAdd ==
    /\ counter[1] = (start + Len(order)) % U8
    /\ \A i \in 1..Len(order) : order[i].ret = (start + i - 1) % U8
    /\ \A i, j \in 1..Len(order) :
          (i < j /\ j - i < U8) => order[i].ret /= order[j].ret
    /\ \A t \in Threads : tlog[t] = ReturnedTo(t)

\* both threads share the counter, their calls interleave and the counter wraps
C2_Witness ==
    /\ handle["a"] = handle["b"]
    /\ start = 255
    /\ Len(order) >= 4
    /\ order[1].thread = "a" /\ order[2].thread = "b" /\ order[3].thread = "a"
    /\ counter[1] = Len(order) - 1

\* the step just taken is a next() call
NextStep ==
    /\ Len(order') = Len(order) + 1
    /\ order'[Len(order')].op = "next"

\* C22: next() returns the value the counter held before the call and leaves
\* the counter one higher modulo 256, so that 255 is followed by 0; the call
\* always returns, and successive calls skip and repeat nothing.
C22_NextReturnsOldAndWraps ==
    [][NextStep =>
          LET e == order'[Len(order')]
          IN  /\ e.ret = counter[e.cell]
              /\ counter'[e.cell] = (IF e.ret = U8 - 1 THEN 0 ELSE e.ret + 1)
              /\ tlog'[e.thread] = Append(tlog[e.thread], e.ret)
              /\ Len(order) > 0 =>
                    e.ret = (IF order[Len(order)].ret = U8 - 1 THEN 0
                             ELSE order[Len(order)].ret + 1)]_vars

\* a call returned 255 and the call after it returned 0
C22_Witness ==
    \E i \in 1..(Len(order) - 1) :
        /\ order[i].ret = U8 - 1
        /\ order[i + 1].ret = 0
        /\ order[i].thread = order[i + 1].thread
        /\ counter[handle[order[i].thread]] = 1

(***************************************************************************)
(* SyncSpec: threads calling next, advance, rewind and sync on two         *)
(* independent sequencers; sync is the two steps of its body               *)
(***************************************************************************)
SyncInit ==
    /\ ApiIdle
    /\ \E value \in InitialValues :
          /\ start = value
          /\ counter = <<value, 7>>
    /\ handle = [t \in Threads |-> IF t = "a" THEN 1 ELSE 2]
    /\ tpc = [t \in Threads |-> "idle"]
    /\ tmp = [t \in Threads |-> NoSync]
    /\ tlog = [t \in Threads |-> <<>>]
    /\ order = <<>>
    /\ seen = [t \in Threads |-> {}]
    /\ IoIdle

Cells == {1, 2}
OtherCell(cell) == 3 - cell

\* thread t calls next() on the sequencer of a cell
Next2(t, cell) ==
    /\ tpc[t] = "idle"
    /\ Len(order) < MaxSteps
    /\ LET r == next_value(counter[cell])
       IN  /\ counter' = [counter EXCEPT ![cell] = r.new]
           /\ tlog' = [tlog EXCEPT ![t] = Append(@, r.ret)]
           /\ order' = Append(order, [thread |-> t, op |-> "next", cell |-> cell,
                                      ret |-> r.ret, new |-> r.new])
           /\ seen' = Observe(cell, r.new)
    /\ UNCHANGED <<start, handle, tpc, tmp, apiVars, ioVars>>

\* thread t calls advance(increment) on its own sequencer
Advance(t) ==
    /\ tpc[t] = "idle"
    /\ Len(order) < MaxSteps
    /\ \E increment \in Increments :
          LET cell == handle[t]
              r == advance(counter[cell], increment)
          IN  /\ counter' = [counter EXCEPT ![cell] = r.new]
              /\ \E ret \in r.rets :
                    order' = Append(order, [thread |-> t, op |-> "advance",
                                            cell |-> cell, ret |-> ret, new |-> r.new])
              /\ seen' = Observe(cell, r.new)
    /\ UNCHANGED <<start, handle, tpc, tmp, tlog, apiVars, ioVars>>

\* thread t calls rewind(value) on the sequencer of a cell
Rewind(t, cell) ==
    /\ tpc[t] = "idle"
    /\ Len(order) < MaxSteps
    /\ \E value \in RewindValues :
          LET new == rewind(counter[cell], value)
          IN  /\ counter' = [counter EXCEPT ![cell] = new]
              /\ order' = Append(order, [thread |-> t, op |-> "rewind", cell |-> cell,
                                         ret |-> value, new |-> new])
              /\ seen' = Observe(cell, new)
    /\ UNCHANGED <<start, handle, tpc, tmp, tlog, apiVars, ioVars>>

\* thread t enters self.sync(other) and evaluates other.current()
SyncLoad(t) ==
    /\ tpc[t] = "idle"
    /\ Len(order) < MaxSteps
    /\ LET self == handle[t]
           other == OtherCell(self)
       IN  /\ tmp' = [tmp EXCEPT ![t] = [self |-> self, other |-> other,
                                         value |-> sync_current(counter, self, other)]]
           /\ seen' = [seen EXCEPT ![t] = {counter[other]}]
    /\ tpc' = [tpc EXCEPT ![t] = "loaded"]
    /\ UNCHANGED <<start, counter, handle, tlog, order, apiVars, ioVars>>

\* thread t finishes sync: self.rewind(the value it read)
SyncStore(t) ==
    /\ tpc[t] = "loaded"
    /\ LET self == tmp[t].self
           new == rewind(counter[self], tmp[t].value)
       IN  /\ counter' = [counter EXCEPT ![self] = new]
           /\ order' = Append(order, [thread |-> t, op |-> "sync", cell |-> self,
                                      ret |-> tmp[t].value, new |-> new,
                                      other |-> counter[tmp[t].other],
                                      seen |-> seen[t]])
           /\ seen' = [Observe(self, new) EXCEPT ![t] = {}]
    /\ tpc' = [tpc EXCEPT ![t] = "idle"]
    /\ tmp' = [tmp EXCEPT ![t] = NoSync]
    /\ UNCHANGED <<start, handle, tlog, apiVars, ioVars>>

SyncStep ==
    \/ \E t \in Threads, cell \in Cells : Next2(t, cell)
    \/ \E t \in Threads : Advance(t)
    \/ \E t \in Threads, cell \in Cells : Rewind(t, cell)
    \/ \E t \in Threads : SyncLoad(t)
    \/ \E t \in Threads : SyncStore(t)

SyncSpec == SyncInit /\ [][SyncStep]_vars

SyncSteps == {i \in 1..Len(order) : order[i].op = "sync"}

\* C3 as stated: sync(other) acts as one indivisible assignment, so the value
\* it stores is the value other's counter holds at the moment of the store.
C3_SyncIsOneAssignment ==
    \A i \in SyncSteps : order[i].new = order[i].other

\* C3 amended: sync(other) is an atomic load of other's counter followed by an
\* atomic store to self's counter. The value stored is one that other's
\* counter held during the call, and after the store self's counter holds it.
C3_SyncStoresAValueOfOther ==
    /\ \A i \in SyncSteps : order[i].new \in order[i].seen
    /\ \A i \in SyncSteps : order[i].new = order[i].ret
    /\ (Len(order) > 0 /\ order[Len(order)].op = "sync") =>
            counter[order[Len(order)].cell] = order[Len(order)].new

\* a sync completed while another thread changed other's counter in between
C3_Witness ==
    \E i \in SyncSteps :
        /\ order[i].thread = "a"
        /\ Cardinality(order[i].seen) > 1
        /\ order[i].new /= order[i].other

\* the step just taken is an advance(increment) call
AdvanceStep ==
    /\ Len(order') = Len(order) + 1
    /\ order'[Len(order')].op = "advance"

\* C23: advance(n) adds n to the counter modulo 256 and returns the updated
\* value (c + n) mod 256, which is what current() reports right after; the
\* call does not fail or panic when the sum passes 255.
C23_AdvanceAddsAndReturnsCurrent ==
    [][AdvanceStep =>
          LET e == order'[Len(order')]
          IN  \E n \in Increments :
                /\ counter'[e.cell] = (counter[e.cell] + n) % U8
                /\ e.ret = <<"ok", current(counter'[e.cell])>>]_vars

(***************************************************************************)
(* ForkSpec: one caller working with two Sequencer handles, a and b: every *)
(* operation runs to its end before the next begins. Handle b is made by   *)
(* fork or clone; a cell no handle refers to is free.                      *)
(***************************************************************************)
\* bound on the operations of one run
MaxTrace == 5

\* a fork that hands out the Arc of the original
fork_sharing(cells, cell) == [cell |-> cell, value |-> current(cells[cell])]

\* Sequencer::fork: Self::init(self.current()), a counter in a fresh cell
fork(cells, cell) == [cell |-> OtherCell(cell), value |-> current(cells[cell])]

\* Sequencer::sync: self.rewind(other.current())
sync(cells, self, other) ==
    [cells EXCEPT ![self] = rewind(cells[self], sync_current(cells, self, other))]

\* Sequencer::join: self.sync(other), then other takes a clone of self's Arc
join(cells, self, other) ==
    [cells |-> sync(cells, self, other), other |-> clone(self)]

ForkStarts == {0}

\* a alone with a fresh counter, or a and b as the example in the Sequencer
\* documentation leaves them after its fork: a at 2, b at 4
ForkInit ==
    /\ ApiIdle
    /\ IoIdle
    /\ \/ \E value \in ForkStarts :
             /\ start = value
             /\ counter = <<value, 0>>
             /\ handle = [t \in Threads |-> IF t = "a" THEN 1 ELSE 0]
       \/ /\ start = 2
          /\ counter = <<2, 4>>
          /\ handle = [t \in Threads |-> IF t = "a" THEN 1 ELSE 2]
    /\ tpc = [t \in Threads |-> "idle"]
    /\ tmp = [t \in Threads |-> NoSync]
    /\ tlog = [t \in Threads |-> <<>>]
    /\ order = <<>>
    /\ seen = [t \in Threads |-> {}]

CanCallOn(t) == handle[t] /= 0 /\ Len(order) < MaxTrace

\* handle t: next()
NextOn(t) ==
    /\ CanCallOn(t)
    /\ LET cell == handle[t]
           r == next_value(counter[cell])
       IN  /\ counter' = [counter EXCEPT ![cell] = r.new]
           /\ order' = Append(order, [thread |-> t, op |-> "next", cell |-> cell,
                                      ret |-> r.ret, new |-> r.new])
    /\ UNCHANGED <<start, handle, tpc, tmp, tlog, seen, apiVars, ioVars>>

\* handle t: advance(increment)
AdvanceOn(t) ==
    /\ CanCallOn(t)
    /\ \E increment \in Increments :
          LET cell == handle[t]
              r == advance(counter[cell], increment)
          IN  /\ counter' = [counter EXCEPT ![cell] = r.new]
              /\ \E ret \in r.rets :
                    order' = Append(order, [thread |-> t, op |-> "advance",
                                            cell |-> cell, ret |-> ret, new |-> r.new])
    /\ UNCHANGED <<start, handle, tpc, tmp, tlog, seen, apiVars, ioVars>>

\* handle t: rewind(value)
RewindOn(t) ==
    /\ CanCallOn(t)
    /\ \E value \in RewindValues :
          LET cell == handle[t]
              new == rewind(counter[cell], value)
          IN  /\ counter' = [counter EXCEPT ![cell] = new]
              /\ order' = Append(order, [thread |-> t, op |-> "rewind", cell |-> cell,
                                         ret |-> value, new |-> new])
    /\ UNCHANGED <<start, handle, tpc, tmp, tlog, seen, apiVars, ioVars>>

\* handle u becomes t.fork(); what u held before is dropped
ForkTo(t, u) ==
    /\ CanCallOn(t)
    /\ u /= t
    /\ LET r == fork(counter, handle[t])
       IN  /\ counter' = [counter EXCEPT ![r.cell] = r.value]
           /\ handle' = [handle EXCEPT ![u] = r.cell]
           /\ order' = Append(order, [thread |-> t, op |-> "fork", cell |-> handle[t],
                                      ret |-> r.value, new |-> r.value])
    /\ UNCHANGED <<start, tpc, tmp, tlog, seen, apiVars, ioVars>>

\* handle u becomes t.clone(); what u held before is dropped
CloneTo(t, u) ==
    /\ CanCallOn(t)
    /\ u /= t
    /\ handle' = [handle EXCEPT ![u] = clone(handle[t])]
    /\ order' = Append(order, [thread |-> t, op |-> "clone", cell |-> handle[t],
                               ret |-> counter[handle[t]], new |-> counter[handle[t]]])
    /\ UNCHANGED <<start, counter, tpc, tmp, tlog, seen, apiVars, ioVars>>

\* t.sync(&u)
Sync(t, u) ==
    /\ CanCallOn(t)
    /\ u /= t
    /\ handle[u] /= 0
    /\ counter' = sync(counter, handle[t], handle[u])
    /\ order' = Append(order, [thread |-> t, op |-> "sync", cell |-> handle[t],
                               ret |-> counter[handle[u]],
                               new |-> counter'[handle[t]]])
    /\ UNCHANGED <<start, handle, tpc, tmp, tlog, seen, apiVars, ioVars>>

\* t.join(&mut u)
Join(t, u) ==
    /\ CanCallOn(t)
    /\ u /= t
    /\ handle[u] /= 0
    /\ LET r == join(counter, handle[t], handle[u])
       IN  /\ counter' = r.cells
           /\ handle' = [handle EXCEPT ![u] = r.other]
           /\ order' = Append(order, [thread |-> t, op |-> "join", cell |-> handle[t],
                                      ret |-> counter[handle[u]],
                                      new |-> r.cells[handle[t]]])
    /\ UNCHANGED <<start, tpc, tmp, tlog, seen, apiVars, ioVars>>

ForkStep ==
    \/ \E t \in Threads : NextOn(t)
    \/ \E t \in Threads : AdvanceOn(t)
    \/ \E t \in Threads : RewindOn(t)
    \/ \E t, u \in Threads : ForkTo(t, u)
    \/ \E t, u \in Threads : CloneTo(t, u)
    \/ \E t, u \in Threads : Sync(t, u)
    \/ \E t, u \in Threads : Join(t, u)

ForkSpec == ForkInit /\ [][ForkStep]_vars

\* the step just taken and the handle it was called on
Taken == order'[Len(order')]
Stepped == Len(order') = Len(order) + 1
Ops(trace) == [i \in 1..Len(trace) |-> <<trace[i].thread, trace[i].op>>]
Rets(trace) == [i \in 1..Len(trace) |-> trace[i].ret]

\* the example of the Sequencer documentation up to its sync
ForkExample ==
    <<<<"a", "next">>, <<"a", "next">>, <<"a", "fork">>, <<"b", "next">>, <<"b", "next">>>>

\* C24: fork() creates a sequencer whose counter starts at the original's
\* current value and is independent of it: the fork leaves the original as it
\* is, and while the two are not joined an operation on one of them changes
\* the current value of that one only. From a fresh sequencer s.next(), s.next(),
\* f = s.fork(), f.next(), f.next() return 0, 1, 2, 3 and leave s at 2.
C24_ForkIsIndependentCopy ==
    [][Stepped =>
          /\ Taken.op = "fork" =>
                \E t, u \in Threads :
                   /\ t = Taken.thread /\ u /= t
                   /\ handle'[u] /= handle'[t]
                   /\ handle'[t] = handle[t]
                   /\ counter'[handle'[u]] = counter[handle[t]]
                   /\ counter'[handle'[t]] = counter[handle[t]]
          /\ (Taken.op \in {"next", "advance", "rewind", "sync"}
                /\ handle["b"] \notin {0, handle["a"]}) =>
                /\ handle' = handle
                /\ \A u \in Threads :
                      u /= Taken.thread => counter'[handle[u]] = counter[handle[u]]
          /\ (start = 0 /\ Ops(order') = ForkExample) =>
                /\ Rets(order') = <<0, 1, 2, 2, 3>>
                /\ counter'[handle'["a"]] = 2
                /\ counter'[handle'["b"]] = 4]_vars

\* the documentation example has run
C24_Witness ==
    /\ start = 0
    /\ Ops(order) = ForkExample
    /\ counter[handle["a"]] = 2
    /\ counter[handle["b"]] = 4

\* the example of the Sequencer documentation from its sync on
SyncExample == <<<<"a", "sync">>, <<"a", "next">>, <<"b", "next">>>>

\* C25: with one caller, s.sync(o) sets s's counter to o.current(), leaves o
\* as it is and does not link the two: the next s.next() returns the value o
\* had, and operations on s after the sync leave o's counter alone. After the
\* forks of the documentation example (s at 2, f at 4) s.sync(f) makes
\* s.next() return 4, and f.next() returns 4 as well.
C25_SyncAdoptsOthersValue ==
    [][Stepped =>
          /\ Taken.op = "sync" =>
                \E t, u \in Threads :
                   /\ t = Taken.thread /\ u /= t
                   /\ counter'[handle[t]] = counter[handle[u]]
                   /\ counter'[handle[u]] = counter[handle[u]]
                   /\ handle' = handle
          /\ (Len(order) > 0 /\ order[Len(order)].op = "sync"
                /\ Taken.thread = order[Len(order)].thread) =>
                /\ Taken.op = "next" => Taken.ret = order[Len(order)].ret
                /\ (Taken.op \in {"next", "advance", "rewind"}
                      /\ handle["a"] /= handle["b"]) =>
                      \A u \in Threads :
                         u /= Taken.thread => counter'[handle[u]] = counter[handle[u]]
          /\ (start = 2 /\ Ops(order') = SyncExample) =>
                /\ Rets(order') = <<4, 4, 4>>
                /\ counter'[handle'["a"]] = 5
                /\ counter'[handle'["b"]] = 5
                /\ handle'["a"] /= handle'["b"]]_vars

\* the rest of the documentation example has run
C25_Witness ==
    /\ start = 2
    /\ Ops(order) = SyncExample
    /\ Rets(order) = <<4, 4, 4>>
    /\ handle["a"] /= handle["b"]

\* the latest join in the trace, 0 when there is none
LastJoin(trace) ==
    IF \E i \in 1..Len(trace) : trace[i].op = "join"
    THEN CHOOSE i \in 1..Len(trace) :
            /\ trace[i].op = "join"
            /\ \A j \in (i + 1)..Len(trace) : trace[j].op /= "join"
    ELSE 0

\* C26: after a.join(&mut b) the two handles share one counter, which holds
\* the value b had when join was called; from then on next, advance and
\* rewind through either handle act on that one counter, so next() calls
\* that alternate between the handles return consecutive values.
C26_JoinSharesOneCounter ==
    [][Stepped =>
          /\ Taken.op = "join" =>
                \E t, u \in Threads :
                   /\ t = Taken.thread /\ u /= t
                   /\ handle'[u] = handle'[t]
                   /\ counter'[handle'[t]] = counter[handle[u]]
          /\ LET j == LastJoin(order)
                 since == SubSeq(order, j + 1, Len(order))
             IN  (j > 0 /\ \A i \in 1..Len(since) :
                               since[i].op \in {"next", "advance", "rewind"}) =>
                   /\ handle["a"] = handle["b"]
                   /\ Taken.op \in {"next", "advance", "rewind"} =>
                         /\ handle' = handle
                         /\ Taken.new = counter'[handle'["a"]]
                         /\ Taken.new = counter'[handle'["b"]]
                   /\ Taken.op = "next" =>
                         Taken.ret = order[Len(order)].new]_vars

\* a.join(&mut b) on counters that differed, then next() on b, a and b
C26_Witness ==
    /\ start = 2
    /\ Ops(order) = <<<<"a", "join">>, <<"b", "next">>, <<"a", "next">>, <<"b", "next">>>>
    /\ Rets(order) = <<4, 4, 5, 6>>
    /\ handle["a"] = handle["b"]

(***************************************************************************)
(* EndpointSpec: endpoints producing frames from messages; endpoint b is a *)
(* clone of a, so the two draw from one counter                            *)
(***************************************************************************)
\* messages of a dialect: the second one exists in MAVLink 2 only
Messages ==
    {[id |-> 0, bytes |-> <<7>>, crc_extra |-> 50, versions |-> {"V1", "V2"}],
     [id |-> 300, bytes |-> <<>>, crc_extra |-> 50, versions |-> {"V2"}]}

\* Message::encode(version): a payload, or SpecError when the message does not
\* support the version
encode(message, version) ==
    IF version \in message.versions
    THEN <<"Ok", Payload_new(message.id, message.bytes, version)>>
    ELSE <<"Err", "Spec">>

\* FrameBuilder::message
fb_message(b, message) ==
    LET r == encode(message, b.header_builder.version)
    IN  IF r[1] = "Err" THEN r
        ELSE <<"Ok", [b EXCEPT !.header_builder.message_id = Some(r[2].id),
                               !.header_builder.payload_length = Some(Len(r[2].bytes)),
                               !.payload = Some(r[2]),
                               !.crc_extra = Some(message.crc_extra)]>>

\* both endpoints are Endpoint::v1 with one identity
EndpointId == [system |-> 10, component |-> 255]
EndpointVersion == "V1"

\* Endpoint::_next_frame on a counter holding value: next_sequence() is
\* evaluated before message() is tried
next_frame(value, version, message) ==
    LET seq == next_value(value)
        b == fb_version(fb_component_id(fb_system_id(
                 fb_sequence(FrameBuilder_new, seq.ret),
                 EndpointId.system), EndpointId.component), version)
        r == fb_message(b, message)
    IN  [seq |-> seq,
         result |-> IF r[1] = "Err" THEN r ELSE <<"Ok", build(r[2])>>]

EndpointInit == SeqInit

CallsOf(t) == Len(SelectSeq(order, LAMBDA e : e.thread = t))

\* endpoint t: next_frame(message); tlog keeps the sequence numbers of the
\* frames t produced
NextFrame(t) ==
    /\ handle[t] /= 0
    /\ CallsOf(t) < MaxCalls
    /\ \E message \in Messages :
          LET cell == handle[t]
              r == next_frame(counter[cell], EndpointVersion, message)
              ok == r.result[1] = "Ok"
          IN  /\ counter' = [counter EXCEPT ![cell] = r.seq.new]
              /\ tlog' = [tlog EXCEPT ![t] =
                             IF ok THEN Append(@, r.result[2].header.sequence) ELSE @]
              /\ order' = Append(order,
                     [thread |-> t, op |-> "next_frame", cell |-> cell,
                      ret |-> r.seq.ret, new |-> r.seq.new,
                      frame |-> IF ok THEN Some(r.result[2].header) ELSE None])
    /\ UNCHANGED <<start, handle, tpc, tmp, seen, apiVars, ioVars>>

EndpointStep ==
    \/ Clone
    \/ \E t \in Threads : NextFrame(t)

EndpointSpec == EndpointInit /\ [][EndpointStep]_vars

\* the sequence numbers of the frames produced, in the order of the counter
Emitted ==
    LET made == SelectSeq(order, LAMBDA e : IsSome(e.frame))
    IN  [i \in 1..Len(made) |-> Unwrap(made[i].frame).sequence]

\* C27: every frame produced by next_frame carries the value returned by one
\* atomic next() on the endpoint's sequencer; successive frames of an
\* endpoint that has its counter to itself have consecutive sequence numbers
\* modulo 256; and endpoints sharing a counter do not emit one sequence
\* number twice within 256 frames, whatever the interleaving.
C27_FramesCarryConsecutiveNumbers ==
    /\ \A i \in 1..Len(order) :
          IsSome(order[i].frame) =>
             /\ Unwrap(order[i].frame).sequence = order[i].ret
             /\ order[i].new = (order[i].ret + 1) % U8
    /\ handle["b"] = 0 =>
          \A i \in 1..(Len(tlog["a"]) - 1) :
             tlog["a"][i + 1] = (tlog["a"][i] + 1) % U8
    /\ \A i, j \in 1..Len(Emitted) :
          (i < j /\ j - i < U8) => Emitted[i] /= Emitted[j]

\* a next_frame call that returned an error
FailedNextFrame ==
    /\ Len(order') = Len(order) + 1
    /\ order'[Len(order')].op = "next_frame"
    /\ ~IsSome(order'[Len(order')].frame)

\* C37: a next_frame call that fails leaves the endpoint's sequence counter
\* as it was, so the frames an endpoint with a counter of its own produces
\* carry sequence numbers without gaps.
C37_FailedNextFrameKeepsCounter ==
    /\ [][FailedNextFrame => counter' = counter]_vars
    /\ [][handle'["b"] = 0
             => \A i \in 1..(Len(tlog'["a"]) - 1) :
                   tlog'["a"][i + 1] = (tlog'["a"][i] + 1) % U8]_vars

(***************************************************************************)
(* Frame::send and Frame::recv over a byte stream                          *)
(***************************************************************************)
Zeros(n) == [i \in 1..n |-> 0]

\* a marker that accepts the magic byte of either version
is_magic_byte_of_any(tag, byte) == byte = STX_V1 \/ byte = STX_V2

\* IsMagicByte::is_magic_byte for the V1, V2 and Versionless markers
is_magic_byte(tag, byte) ==
    IF tag = "V1" THEN byte = STX_V1
    ELSE IF tag = "V2" THEN byte = STX_V2
    ELSE byte = STX_V1 \/ byte = STX_V2

\* positions of the window holding a byte the marker accepts
MagicPositions(tag, buffer) == {i \in 1..Len(buffer) : is_magic_byte(tag, buffer[i])}

\* a search that goes through the whole window and keeps the last match
header_start_idx_last(tag, buffer) ==
    LET found == MagicPositions(tag, buffer)
    IN  CHOOSE i \in found : \A j \in found : i >= j

\* the loop of HeaderStart::from_slice: it breaks at the first match
header_start_idx(tag, buffer) ==
    LET found == MagicPositions(tag, buffer)
    IN  CHOOSE i \in found : \A j \in found : i <= j

\* HeaderStart::from_slice: the first byte of the window the marker accepts
\* starts the header; None when the window holds no such byte
HeaderStart_from_slice(tag, buffer) ==
    IF MagicPositions(tag, buffer) = {} THEN None
    ELSE LET idx == header_start_idx(tag, buffer)
             version == Unwrap(to_mavlink_version(buffer[idx]))
             header_size == IF version = "V1" THEN HEADER_V1_SIZE
                            ELSE HEADER_V2_SIZE
             n_bytes_read == Len(buffer) - (idx - 1)
         IN  Some([buffer |-> SubSeqFrom(buffer, idx),
                   n_bytes_read |-> n_bytes_read,
                   n_bytes_left |-> header_size - n_bytes_read])

\* HeaderStart::is_complete
is_complete(header_start) == header_start.n_bytes_left = 0

\* Header::send: the bytes written
header_send(header) == decode(header)

\* the buffer Frame::send assembles the body in: a Vec of body_length bytes
\* with the alloc feature, a fixed array without it
buffer_len(f, alloc) ==
    IF alloc THEN body_length(f.header) ELSE PAYLOAD_MAX_SIZE + SIGNATURE_LENGTH

\* Frame::send for either build: the outcome and the bytes that reached the
\* writer. The header is written before the body is assembled;
\* copy_from_slice panics when the 13 signature bytes do not fit the body;
\* write_all is handed buf.as_slice(), the whole buffer.
send_built(f, alloc) ==
    IF f.header.payload_length /= Len(f.payload.bytes)
    THEN [status |-> "InconsistentPayloadSize", written |-> <<>>, n |-> 0]
    ELSE LET payload_length == f.header.payload_length
             header_bytes == header_send(f.header)
             buf == f.payload.bytes \o u16_to_le_bytes(f.checksum)
                      \o Zeros(buffer_len(f, alloc) - payload_length - CHECKSUM_SIZE)
             sig_start_idx == payload_length + 2
             n == Len(header_bytes) + body_length(f.header)
         IN  IF IsSome(f.signature)
             THEN IF body_length(f.header) - sig_start_idx /= SIGNATURE_LENGTH
                  THEN [status |-> "panic", written |-> header_bytes, n |-> 0]
                  ELSE [status |-> "ok",
                        written |-> header_bytes
                                      \o SubSeq(buf, 1, sig_start_idx)
                                      \o to_byte_array(Unwrap(f.signature))
                                      \o SubSeq(buf, body_length(f.header) + 1, Len(buf)),
                        n |-> n]
             ELSE [status |-> "ok",
                   written |-> header_bytes \o buf,
                   n |-> n]

\* Frame::send built with the alloc feature
send(f) == send_built(f, TRUE)

\* Frame::try_from_raw_body
try_from_raw_body(header, body_bytes) ==
    LET payload_bytes == SubSeq(body_bytes, 1, header.payload_length)
        checksum_start == header.payload_length
    IN  [header |-> header,
         payload |-> Payload_new(header.message_id, payload_bytes, header.version),
         checksum |-> u16_from_le_bytes(<<body_bytes[checksum_start + 1],
                                          body_bytes[checksum_start + 2]>>),
         signature |->
            IF header_is_signed(header)
            THEN Some(from_slice(SubSeq(body_bytes, checksum_start + CHECKSUM_SIZE + 1,
                                        checksum_start + CHECKSUM_SIZE + SIGNATURE_LENGTH)))
            ELSE None]

(***************************************************************************)
(* IoSpec: a writer sends junk and frames into a stream and closes it; a   *)
(* Receiver then calls recv until the stream ends. recv is the sequence of *)
(* its read_exact calls: the 6-byte window (repeated while it holds no     *)
(* magic byte), the rest of the header, the body.                          *)
(***************************************************************************)
\* bound on the frames sent into one stream
MaxFrames == 2

\* a fully configured builder for a frame of system 10, component 255, message 0
IoBuilder(version, sequence, bytes) ==
    fb_crc_extra(
        fb_payload(
            fb_message_id(
                fb_component_id(
                    fb_system_id(
                        fb_sequence(fb_version(FrameBuilder_new, version), sequence),
                        10),
                    255),
                0),
            bytes),
        50)

SigningKey == [i \in 1..SIGNATURE_SECRET_KEY_LENGTH |-> 255]

\* the frames the writer sends, with the key of those signed by SignatureConf:
\* built frames, a frame given a signature by an updater, a frame signed with
\* SignatureConf::apply, a frame built with the SIGNED flag
IoWrites ==
    LET v1 == build(IoBuilder("V1", 1, Zeros(8)))
        v1m == build(IoBuilder("V1", STX_V1, <<STX_V2>>))
        v2 == build(IoBuilder("V2", STX_V2, <<STX_V1, 0>>))
        raw == [link_id |-> 0, timestamp |-> 5, value |-> <<9, 0, 0, 0, 0, 0>>]
        conf == [link_id |-> 0, timestamp |-> 0, secret |-> SigningKey]
    IN  {[frame |-> v1, key |-> None],
         [frame |-> v1m, key |-> None],
         [frame |-> v2, key |-> None],
         [frame |-> update(v2, v2.payload.bytes, 0, Some(raw), 50), key |-> None],
         [frame |-> apply(conf, v2), key |-> Some(SigningKey)],
         [frame |-> build(fb_incompat_flags(IoBuilder("V2", 1, <<>>),
                                            MAVLINK_IFLAG_SIGNED)),
          key |-> None]}

\* junk the writer puts on the stream
JunkChunks == {<<12, 24, 240>>, <<12, 12, 12, 12, 12, 12, 12>>, <<STX_V2, 12>>, <<STX_V1>>}

IoInit ==
    /\ ApiIdle
    /\ SeqIdle
    /\ wire = <<>>
    /\ closed = FALSE
    /\ rpos = 0
    /\ rtag \in Tags
    /\ sender = AllocSender
    /\ rpc = "idle"
    /\ rloc = NoLocals
    /\ rcvd = <<>>
    /\ sent = <<>>

FramesSent == SelectSeq(sent, LAMBDA w : w.kind = "frame")
JunkSent == SelectSeq(sent, LAMBDA w : w.kind = "junk")
WriterAlive == \A i \in 1..Len(sent) : sent[i].kind = "frame" => sent[i].status /= "panic"

\* the writer puts one chunk of junk on the stream
WriteJunk ==
    /\ ~closed
    /\ WriterAlive
    /\ JunkSent = <<>>
    /\ \E chunk \in JunkChunks :
          /\ wire' = wire \o chunk
          /\ sent' = Append(sent, [kind |-> "junk", bytes |-> chunk, at |-> Len(wire)])
    /\ UNCHANGED <<closed, rpos, rtag, sender, rpc, rloc, rcvd, apiVars, seqVars>>

\* Sender::send of one frame
Send ==
    /\ ~closed
    /\ WriterAlive
    /\ Len(FramesSent) < MaxFrames
    /\ \E w \in IoWrites :
          LET r == send(w.frame)
          IN  /\ wire' = wire \o r.written
              /\ sent' = Append(sent, [kind |-> "frame", frame |-> w.frame,
                                       key |-> w.key, status |-> r.status,
                                       n |-> r.n, at |-> Len(wire)])
    /\ UNCHANGED <<closed, rpos, rtag, sender, rpc, rloc, rcvd, apiVars, seqVars>>

\* the writer is dropped: the stream ends after the bytes written
Close ==
    /\ ~closed
    /\ closed' = TRUE
    /\ UNCHANGED <<wire, sent, rpos, rtag, sender, rpc, rloc, rcvd, apiVars, seqVars>>

Avail == Len(wire) - rpos
Take(n) == SubSeq(wire, rpos + 1, rpos + n)

EofError == <<"Err", "UnexpectedEof">>
IoError == <<"Err", "Io">>

\* the reader goes on calling recv until the stream has ended, and tries
\* once more after that
CanCall == Cardinality({i \in 1..Len(rcvd) : rcvd[i].result = EofError}) < 2

\* a read fault is injected at most once per stream
NoFault == \A i \in 1..Len(rcvd) : rcvd[i].result /= IoError

Reading == IF rpc = "idle" THEN CanCall ELSE TRUE

\* position at which the running (or starting) call began
CallStart == IF rpc = "idle" THEN rpos ELSE rloc.start

\* bytes the pending read_exact asks for
Needed ==
    IF rpc = "rest" THEN Unwrap(rloc.header_start).n_bytes_left
    ELSE IF rpc = "body" THEN body_length(Unwrap(rloc.header))
    ELSE HEADER_MIN_SIZE

\* a reader whose position stays where it was after a read
read_exact_in_place(pos, n) == pos

\* read_exact that finds the n bytes asked for: the reader's position after it
read_exact(pos, n) == pos + n

\* a kept version of the locals of a failed call
abandon_keep(locals) == locals

\* `?` on a failed read_exact returns from recv: its locals are dropped
abandon(locals) == NoLocals

\* Header::recv: read the 6-byte window and look for the start of a header
RecvWindow ==
    /\ closed
    /\ rpc \in {"idle", "window"}
    /\ Reading
    /\ Avail >= HEADER_MIN_SIZE
    /\ LET buffer == Take(HEADER_MIN_SIZE)
           header_start == HeaderStart_from_slice(rtag, buffer)
       IN  IF ~IsSome(header_start)
           THEN /\ rpc' = "window"
                /\ rloc' = [start |-> CallStart, header_start |-> None,
                            header |-> None]
           ELSE IF is_complete(Unwrap(header_start))
           THEN /\ rpc' = "body"
                /\ rloc' = [start |-> CallStart, header_start |-> header_start,
                            header |-> Some(try_from_slice(Unwrap(header_start).buffer))]
           ELSE /\ rpc' = "rest"
                /\ rloc' = [start |-> CallStart, header_start |-> header_start,
                            header |-> None]
    /\ rpos' = read_exact(rpos, HEADER_MIN_SIZE)
    /\ UNCHANGED <<wire, closed, rtag, sender, rcvd, sent, apiVars, seqVars>>

\* Header::recv: read the remaining bytes of the header and decode it
RecvRest ==
    /\ closed
    /\ rpc = "rest"
    /\ Avail >= Needed
    /\ LET header_start == Unwrap(rloc.header_start)
           header_bytes == header_start.buffer \o Take(header_start.n_bytes_left)
       IN  rloc' = [rloc EXCEPT !.header = Some(try_from_slice(header_bytes))]
    /\ rpc' = "body"
    /\ rpos' = read_exact(rpos, Needed)
    /\ UNCHANGED <<wire, closed, rtag, sender, rcvd, sent, apiVars, seqVars>>

\* Frame::recv: read the body and return the frame
RecvBody ==
    /\ closed
    /\ rpc = "body"
    /\ Avail >= Needed
    /\ LET header == Unwrap(rloc.header)
           f == try_from_raw_body(header, Take(body_length(header)))
       IN  rcvd' = Append(rcvd, [start |-> rloc.start, end |-> rpos + Needed,
                                 result |-> <<"Ok", f>>])
    /\ rpc' = "idle"
    /\ rloc' = NoLocals
    /\ rpos' = read_exact(rpos, Needed)
    /\ UNCHANGED <<wire, closed, rtag, sender, sent, apiVars, seqVars>>

\* read_exact meets the end of the stream: recv returns UnexpectedEof. The
\* reader has consumed either nothing or everything that was left.
RecvEof ==
    /\ closed
    /\ Reading
    /\ Avail < Needed
    /\ \E pos \in {rpos, Len(wire)} :
          /\ rpos' = pos
          /\ rcvd' = Append(rcvd, [start |-> CallStart, end |-> pos,
                                   result |-> EofError])
    /\ rpc' = "idle"
    /\ rloc' = abandon(rloc)
    /\ UNCHANGED <<wire, closed, rtag, sender, sent, apiVars, seqVars>>

\* read_exact fails with another I/O error: recv returns it. The reader has
\* consumed either nothing or what it could of the bytes asked for.
RecvIoError ==
    /\ closed
    /\ Reading
    /\ NoFault
    /\ \E pos \in {rpos, rpos + Min(Needed, Avail)} :
          /\ rpos' = pos
          /\ rcvd' = Append(rcvd, [start |-> CallStart, end |-> pos,
                                   result |-> IoError])
    /\ rpc' = "idle"
    /\ rloc' = abandon(rloc)
    /\ UNCHANGED <<wire, closed, rtag, sender, sent, apiVars, seqVars>>

IoNext ==
    \/ WriteJunk
    \/ Send
    \/ Close
    \/ RecvWindow
    \/ RecvRest
    \/ RecvBody
    \/ RecvEof
    \/ RecvIoError

IoSpec == IoInit /\ [][IoNext]_vars

\* a recv call that can take its next step takes it: a read_exact on a
\* stream that has ended returns, and the code between two reads runs on
IoLive == IoSpec /\ WF_vars(RecvWindow \/ RecvRest \/ RecvBody \/ RecvEof)

(***************************************************************************)
(* SendSpec: a Sender of either build writes frames into a stream          *)
(***************************************************************************)
\* bound on the send calls of one Sender
MaxSends == 3

SendInit ==
    /\ ApiIdle
    /\ SeqIdle
    /\ wire = <<>>
    /\ closed = FALSE
    /\ rpos = 0
    /\ rtag = "Versionless"
    /\ sender \in [version : Tags, alloc : BOOLEAN]
    /\ rpc = "idle"
    /\ rloc = NoLocals
    /\ rcvd = <<>>
    /\ sent = <<>>

\* Sender::send: V::expect(frame.version())?, then Frame::send
SenderSend ==
    /\ WriterAlive
    /\ Len(sent) < MaxSends
    /\ \E w \in IoWrites :
          LET e == expect(sender.version, w.frame.header.version)
              r == IF e = <<"Ok">> THEN send_built(w.frame, sender.alloc)
                   ELSE [status |-> e[2], written |-> <<>>, n |-> 0]
          IN  /\ wire' = wire \o r.written
              /\ sent' = Append(sent, [kind |-> "frame", frame |-> w.frame,
                                       key |-> w.key, status |-> r.status,
                                       n |-> r.n, at |-> Len(wire)])
    /\ UNCHANGED <<closed, rpos, rtag, sender, rpc, rloc, rcvd, apiVars, seqVars>>

SendSpec == SendInit /\ [][SenderSend]_vars

\* the bytes the i-th send call put on the stream
WrittenBy(i) ==
    SubSeq(wire, sent[i].at + 1,
           IF i < Len(sent) THEN sent[i + 1].at ELSE Len(wire))

\* C28: a send that returns Ok(n) has written the header bytes, the payload,
\* the checksum in little-endian order and, for a frame with a signature,
\* its 13 bytes, and nothing else; n is the number of bytes written, header
\* size plus body_length, so the next frame starts n bytes further on.
C28_SendWritesFrameAndReturnsLength ==
    \A i \in 1..Len(sent) :
        sent[i].status = "ok" =>
           LET f == sent[i].frame
           IN  /\ WrittenBy(i) =
                     decode(f.header) \o f.payload.bytes
                        \o u16_to_le_bytes(f.checksum)
                        \o (IF IsSome(f.signature)
                            THEN to_byte_array(Unwrap(f.signature)) ELSE <<>>)
               /\ sent[i].n = size(f.header) + body_length(f.header)
               /\ sent[i].n = Len(WrittenBy(i))


\* C35: on a stream that has ended every recv call ends, with a frame or
\* an I/O error, and each step of a call that does not end it has consumed
\* bytes of the stream.
C35_RecvTerminates ==
    /\ [][(rpc' /= "idle" /\ <<rpc, rpos, rloc>>' /= <<rpc, rpos, rloc>>)
             => rpos' > rpos]_vars
    /\ (rpc /= "idle") ~> (rpc = "idle" /\ rcvd /= <<>>)

\* a call went through a window of junk, returned a frame, and the next call
\* ended with UnexpectedEof
C35_Witness ==
    /\ rpc = "idle"
    /\ Len(rcvd) = 2
    /\ rcvd[1].result[1] = "Ok"
    /\ rcvd[1].end - rcvd[1].start
         > size(rcvd[1].result[2].header) + body_length(rcvd[1].result[2].header)
    /\ rcvd[2].result = EofError

(***************************************************************************)
(* ScanSpec: one Header::recv call of either revision on a stream that     *)
(* begins with a window of junk and magic bytes                            *)
(***************************************************************************)
\* the bytes a window is made of: junk and the two magic bytes
ScanBytes == {12, STX_V1, STX_V2}

\* the bytes following the window: enough for the longest header
ScanTail == <<8, 1, 10, 255, 0, 0, 0, 0, 0>>

ScanInit ==
    /\ ApiIdle
    /\ SeqIdle
    /\ wire \in {window \o ScanTail : window \in [1..HEADER_MIN_SIZE -> ScanBytes]}
    /\ closed = TRUE
    /\ rpos = 0
    /\ rtag \in Tags
    /\ sender = AllocSender
    /\ rpc = "idle"
    /\ rloc = NoLocals
    /\ rcvd = <<>>
    /\ sent = <<>>

\* one iteration of the loop of Header::recv on the bytes of a stream: the
\* header and the number of bytes read, or "continue"
header_recv(tag, bytes) ==
    LET buffer == SubSeq(bytes, 1, HEADER_MIN_SIZE)
        header_start == HeaderStart_from_slice(tag, buffer)
    IN  IF ~IsSome(header_start) THEN <<"continue">>
        ELSE LET hs == Unwrap(header_start)
                 header_bytes ==
                     hs.buffer \o SubSeq(bytes, HEADER_MIN_SIZE + 1,
                                         HEADER_MIN_SIZE + hs.n_bytes_left)
             IN  <<"Ok", try_from_slice(header_bytes),
                   HEADER_MIN_SIZE + hs.n_bytes_left>>

\* the search loop of the older Header::recv: it has no break, so
\* header_start_idx ends as the index of the last magic byte of the window
recv_header_start_idx(buffer) ==
    LET found == {i \in 1..Len(buffer) : buffer[i] = STX_V1 \/ buffer[i] = STX_V2}
    IN  CHOOSE i \in found : \A j \in found : i >= j

\* one iteration of the loop of the older Header::recv
recv(bytes) ==
    LET buffer == SubSeq(bytes, 1, HEADER_MIN_SIZE)
    IN  IF \A i \in 1..Len(buffer) : buffer[i] /= STX_V1 /\ buffer[i] /= STX_V2
        THEN <<"continue">>
        ELSE LET start_idx == recv_header_start_idx(buffer)
                 version == Unwrap(to_mavlink_version(buffer[start_idx]))
                 header_size == IF version = "V1" THEN HEADER_V1_SIZE
                                ELSE HEADER_V2_SIZE
                 num_read_bytes == Len(buffer) - (start_idx - 1)
                 header_bytes ==
                     SubSeqFrom(buffer, start_idx)
                        \o SubSeq(bytes, HEADER_MIN_SIZE + 1,
                                  HEADER_MIN_SIZE + header_size - num_read_bytes)
             IN  <<"Ok", try_from_slice(header_bytes),
                   HEADER_MIN_SIZE + header_size - num_read_bytes>>

\* Header::<V>::recv is called on the stream
ScanRecv ==
    /\ rcvd = <<>>
    /\ LET r == header_recv(rtag, wire)
       IN  /\ rcvd' = <<[start |-> 0, tag |-> rtag, result |-> r]>>
           /\ rpos' = IF r[1] = "Ok" THEN r[3] ELSE HEADER_MIN_SIZE
    /\ UNCHANGED <<wire, closed, rtag, sender, rpc, rloc, sent, apiVars, seqVars>>

\* the older Header::recv, which accepts both magic bytes, is called on the
\* stream
ScanRecvOld ==
    /\ rcvd = <<>>
    /\ LET r == recv(wire)
       IN  /\ rcvd' = <<[start |-> 0, tag |-> "Versionless", result |-> r]>>
           /\ rpos' = IF r[1] = "Ok" THEN r[3] ELSE HEADER_MIN_SIZE
    /\ UNCHANGED <<wire, closed, rtag, sender, rpc, rloc, sent, apiVars, seqVars>>

ScanSpec == ScanInit /\ [][ScanRecv \/ ScanRecvOld]_vars

\* C31: the first byte of the 6-byte window that is a magic byte acceptable
\* to the scanner's tag starts the header: the header returned is the one
\* whose bytes begin there, later magic bytes of the window being its
\* fields, and a window without such a byte yields no header.
C31_FirstMagicByteStartsHeader ==
    \A k \in 1..Len(rcvd) :
        LET tag == rcvd[k].tag
            found == {i \in 1..HEADER_MIN_SIZE : is_magic_byte(tag, wire[i])}
        IN  IF found = {} THEN rcvd[k].result = <<"continue">>
            ELSE LET first == CHOOSE i \in found : \A j \in found : i <= j
                     header == rcvd[k].result[2]
                 IN  /\ rcvd[k].result[1] = "Ok"
                     /\ decode(header)
                          = SubSeq(wire, first, first + size(header) - 1)
                     /\ rcvd[k].result[3] = first - 1 + size(header)

(***************************************************************************)
(* BodySpec: Frame::recv of either build on a stream holding one frame     *)
(* whose header announces a chosen payload length                          *)
(***************************************************************************)
\* the headers on the stream: either version, every payload length, for V2
\* with the SIGNED flag or without
BodyHeaders ==
    {[version |-> version, payload_length |-> payload_length,
      incompat_flags |-> incompat_flags, compat_flags |-> 0, sequence |-> 1,
      system_id |-> 10, component_id |-> 255, message_id |-> 0] :
        version \in Versions, payload_length \in 0..PAYLOAD_MAX_SIZE,
        incompat_flags \in {0, MAVLINK_IFLAG_SIGNED}}

BodyInit ==
    /\ ApiIdle
    /\ SeqIdle
    /\ \E header \in BodyHeaders :
          /\ header.version = "V1" => header.incompat_flags = 0
          /\ wire = decode(header) \o Zeros(body_length(header))
    /\ closed = TRUE
    /\ rpos = 0
    /\ rtag = "Versionless"
    /\ sender \in [version : {"Versionless"}, alloc : BOOLEAN]
    /\ rpc = "idle"
    /\ rloc = NoLocals
    /\ rcvd = <<>>
    /\ sent = <<>>

\* Frame::recv for either build: the header is received, then the body is
\* read into body_buf[0..body_length], a Vec of body_length bytes or a fixed
\* array; slicing the array beyond its length panics
recv_built(tag, bytes, alloc) ==
    LET r == header_recv(tag, bytes)
    IN  IF r[1] /= "Ok" THEN [status |-> "continue", n |-> HEADER_MIN_SIZE]
        ELSE LET header == r[2]
                 length == body_length(header)
                 body_buf == Zeros(buffer_len([header |-> header], alloc))
             IN  IF length > Len(body_buf)
                 THEN [status |-> "panic", header |-> header, n |-> r[3]]
                 ELSE [status |-> "ok", header |-> header, n |-> r[3] + length,
                       frame |-> try_from_raw_body(
                                    header, SubSeq(bytes, r[3] + 1, r[3] + length))]

\* Frame::recv is called on the stream
BodyRecv ==
    /\ rcvd = <<>>
    /\ LET r == recv_built(rtag, wire, sender.alloc)
       IN  /\ rcvd' = <<[start |-> 0, end |-> r.n, result |-> r]>>
           /\ rpos' = r.n
    /\ UNCHANGED <<wire, closed, rtag, sender, rpc, rloc, sent, apiVars, seqVars>>

BodySpec == BodyInit /\ [][BodyRecv]_vars

\* C36: for every header the scanner decodes, body_length is payload_length
\* + 2, plus 13 when signed, at most 270, and it does not exceed the length
\* of the body buffer of recv, with or without dynamic allocation: the slice
\* body_buf[0..body_length] is in bounds and recv does not panic.
C36_BodyFitsFixedBuffer ==
    \A k \in 1..Len(rcvd) :
        LET r == rcvd[k].result
            length == body_length(r.header)
        IN  /\ length = r.header.payload_length + 2
                          + (IF header_is_signed(r.header) THEN 13 ELSE 0)
            /\ length <= 270
            /\ length <= PAYLOAD_MAX_SIZE + SIGNATURE_LENGTH
            /\ r.status = "ok"

(***************************************************************************)
(* Claims about the stream                                                 *)
(***************************************************************************)
\* a frame whose payload_length is its payload's length and whose signature
\* is present exactly when its header is signed
well_formed(f) ==
    /\ f.header.payload_length = Len(f.payload.bytes)
    /\ IsSome(f.signature) <=> header_is_signed(f.header)

Accepts(tag, version) == tag = "Versionless" \/ tag = version

JunkFree(tag, bytes) == \A i \in 1..Len(bytes) : ~is_magic_byte(tag, bytes[i])

IsOk(result) == result[1] = "Ok"

\* what one recv call of a receiver without any history returns on bytes
\* from position pos on: the frame and the position reached, or UnexpectedEof
RECURSIVE FreshRecv(_, _, _)
FreshRecv(bytes, pos, tag) ==
    IF Len(bytes) - pos < HEADER_MIN_SIZE THEN [result |-> EofError]
    ELSE LET hs == HeaderStart_from_slice(tag, SubSeq(bytes, pos + 1,
                                                      pos + HEADER_MIN_SIZE))
             at == pos + HEADER_MIN_SIZE
         IN  IF ~IsSome(hs) THEN FreshRecv(bytes, at, tag)
             ELSE LET left == Unwrap(hs).n_bytes_left
                  IN  IF Len(bytes) - at < left THEN [result |-> EofError]
                      ELSE LET header == try_from_slice(
                                   Unwrap(hs).buffer \o SubSeq(bytes, at + 1, at + left))
                               body == at + left
                               n == body_length(header)
                           IN  IF Len(bytes) - body < n THEN [result |-> EofError]
                               ELSE [result |-> <<"Ok", try_from_raw_body(header,
                                                   SubSeq(bytes, body + 1, body + n))>>,
                                     end |-> body + n]

\* every write is junk free of magic bytes the receiver accepts, or a
\* well-formed frame of a version it accepts that send wrote in full
WireWellFormed ==
    \A i \in 1..Len(sent) :
        IF sent[i].kind = "junk" THEN JunkFree(rtag, sent[i].bytes)
        ELSE /\ sent[i].status = "ok"
             /\ well_formed(sent[i].frame)
             /\ Accepts(rtag, sent[i].frame.header.version)

C6_JunkThenFrame ==
    (/\ Len(sent) >= 2
     /\ sent[1].kind = "junk"
     /\ sent[2].kind = "frame"
     /\ WireWellFormed
     /\ Len(rcvd) >= 1
     /\ rcvd[1].result /= IoError) =>
        LET k == sent[2].at
            r == rcvd[1]
            h == r.result[2].header
        IN  /\ IsOk(r.result)
            /\ r.result[2] = sent[2].frame
            /\ r.start = 0
            /\ r.end = k + sent[2].n
            /\ h.version = (IF wire[k + 1] = STX_V1 THEN "V1" ELSE "V2")
            /\ h.payload_length = wire[k + 2]
            /\ IF h.version = "V1"
               THEN /\ h.sequence = wire[k + 3]
                    /\ h.system_id = wire[k + 4]
                    /\ h.component_id = wire[k + 5]
                    /\ h.message_id = wire[k + 6]
               ELSE /\ h.incompat_flags = wire[k + 3]
                    /\ h.compat_flags = wire[k + 4]
                    /\ h.sequence = wire[k + 5]
                    /\ h.system_id = wire[k + 6]
                    /\ h.component_id = wire[k + 7]
                    /\ h.message_id = wire[k + 8] + 256 * wire[k + 9]
                                        + 65536 * wire[k + 10]
            /\ r.result[2].payload.bytes
                  = SubSeq(wire, k + size(h) + 1, k + size(h) + h.payload_length)

\* three junk bytes, then FE 08 01 0A FF 00 and the rest of that V1 frame:
\* the first call returned V1, length 8, sequence 1, system 10, component 255,
\* message 0
C6_Witness ==
    /\ Len(sent) >= 2
    /\ sent[1].kind = "junk"
    /\ sent[1].bytes = <<12, 24, 240>>
    /\ SubSeq(wire, 4, 9) = <<254, 8, 1, 10, 255, 0>>
    /\ Len(rcvd) >= 1
    /\ IsOk(rcvd[1].result)
    /\ rcvd[1].result[2].header =
          [version |-> "V1", payload_length |-> 8, incompat_flags |-> 0,
           compat_flags |-> 0, sequence |-> 1, system_id |-> 10,
           component_id |-> 255, message_id |-> 0]

OwnMagic(tag) == IF tag = "V1" THEN STX_V1 ELSE STX_V2

\* C7: a receiver bound to version V returns only frames of version V; on a
\* finite stream without any magic byte of V every call that completes without
\* a read fault ends with UnexpectedEof; and when such a stream is one
\* well-formed frame of the other version, a versionless receiver on the same
\* bytes returns that frame.
C7_VersionedReceiver ==
    rtag /= "Versionless" =>
        /\ \A i \in 1..Len(rcvd) :
              IsOk(rcvd[i].result) => rcvd[i].result[2].header.version = rtag
        /\ (\A j \in 1..Len(wire) : wire[j] /= OwnMagic(rtag)) =>
              /\ \A i \in 1..Len(rcvd) : rcvd[i].result \in {EofError, IoError}
              /\ (closed /\ Len(sent) = 1 /\ sent[1].kind = "frame"
                    /\ sent[1].status = "ok" /\ well_formed(sent[1].frame)) =>
                    FreshRecv(wire, 0, "Versionless").result
                        = <<"Ok", sent[1].frame>>

\* a receiver bound to V1 met a stream made of one V2 frame and reported
\* UnexpectedEof
C7_Witness ==
    /\ rtag = "V1"
    /\ Len(sent) = 1
    /\ sent[1].kind = "frame"
    /\ sent[1].status = "ok"
    /\ sent[1].frame.header.version = "V2"
    /\ \A j \in 1..Len(wire) : wire[j] /= STX_V1
    /\ Len(rcvd) = 1
    /\ rcvd[1].result = EofError

\* C8: a recv call that failed keeps nothing: between calls the receiver
\* holds no locals, and the call after a failed one starts at the reader's
\* position and returns what a receiver without history returns on the
\* bytes from there on.
C8_NoStateAfterFailure ==
    /\ rpc = "idle" => rloc = NoLocals
    /\ \A i \in 2..Len(rcvd) :
          (~IsOk(rcvd[i - 1].result) /\ rcvd[i].result /= IoError) =>
              LET fresh == FreshRecv(wire, rcvd[i].start, rtag)
              IN  /\ rcvd[i].start = rcvd[i - 1].end
                  /\ rcvd[i].result = fresh.result
                  /\ IsOk(fresh.result) => rcvd[i].end = fresh.end

\* a call failed after it had read a header, in the middle of the frame,
\* and the next call returned a frame
C8_Witness ==
    /\ Len(rcvd) >= 2
    /\ rcvd[1].result = IoError
    /\ rcvd[1].end > rcvd[1].start + HEADER_MIN_SIZE
    /\ IsOk(rcvd[2].result)
    /\ rpc = "idle"

\* the checksum of a frame of message 0 (CRC_EXTRA 50) is valid
valid_checksum(f) == f.checksum = calculate_crc(f, 50)

\* C4: a frame with a valid checksum and a payload_length equal to its
\* payload's length is written by send, and recv on the bytes written returns
\* a frame equal to it in header, payload, checksum and signature.
C4_RoundTrip ==
    (/\ Len(sent) >= 1
     /\ sent[1].kind = "frame"
     /\ valid_checksum(sent[1].frame)
     /\ sent[1].frame.header.payload_length = Len(sent[1].frame.payload.bytes)) =>
        /\ sent[1].status = "ok"
        /\ (rtag = "Versionless" /\ Len(rcvd) >= 1 /\ rcvd[1].result /= IoError) =>
              rcvd[1].result = <<"Ok", sent[1].frame>>

OtherKey == [i \in 1..SIGNATURE_SECRET_KEY_LENGTH |-> 0]

\* C10: a V2 frame signed with key K by SignatureConf::apply is written by
\* send; the frame recv returns for it is signed, validates with K and does
\* not validate with a key that yields another digest.
C10_SignedRoundTripVerifies ==
    (/\ Len(sent) >= 1
     /\ sent[1].kind = "frame"
     /\ IsSome(sent[1].key)) =>
        /\ sent[1].status = "ok"
        /\ (rtag /= "V1" /\ Len(rcvd) >= 1 /\ rcvd[1].result /= IoError) =>
              /\ IsOk(rcvd[1].result)
              /\ LET g == rcvd[1].result[2]
                     K == Unwrap(sent[1].key)
                 IN  /\ is_signed(g)
                     /\ validate(g, Unwrap(g.signature), K)
                     /\ (calculate(g, Unwrap(g.signature).link_id,
                                   Unwrap(g.signature).timestamp, OtherKey)
                           /= Unwrap(g.signature).value) =>
                            ~validate(g, Unwrap(g.signature), OtherKey)

(***************************************************************************)
(* Claims about frames handled through the API                             *)
(***************************************************************************)
\* C1: every frame reachable through the API carries a signature if and only
\* if its header is signed, and its header is signed if and only if it is a
\* V2 header with the SIGNED bit of incompat_flags set.
C1_SignatureIffHeaderSigned ==
    IsSome(frame) =>
        LET f == Unwrap(frame)
        IN  /\ IsSome(f.signature) <=> header_is_signed(f.header)
            /\ header_is_signed(f.header) <=>
                  (f.header.version = "V2"
                     /\ contains(f.header.incompat_flags, MAVLINK_IFLAG_SIGNED))

\* C9: Signer::validate returns true if and only if the value recomputed from
\* the key, the frame and the signature's link_id and timestamp equals the
\* signature's value.
C9_ValidateIffRecomputedEqual ==
    last.op = "validate" =>
        LET f == Unwrap(frame)
            signature == Unwrap(f.signature)
        IN  last.result <=>
                (calculate(f, signature.link_id, signature.timestamp, last.key)
                    = signature.value)

\* a step of one of the signing operations on the frame in hand
SigningStep ==
    /\ IsSome(frame)
    /\ IsSome(frame')
    /\ nops' = nops + 1
    /\ last'.op \in {"sign", "add_signature"}

\* the frame of section 4.5 after step 2: SIGNED set, nothing else touched
Flagged(f) ==
    [f EXCEPT !.header.incompat_flags = set(@, MAVLINK_IFLAG_SIGNED, TRUE)]

\* what signing a V2 frame f with conf has to leave in g
SignedAs(f, conf, g) ==
    /\ g.header.incompat_flags =
          set(f.header.incompat_flags, MAVLINK_IFLAG_SIGNED, TRUE)
    /\ g.signature =
          Some([link_id |-> conf.link_id,
                timestamp |-> conf.timestamp,
                value |-> calculate(Flagged(f), conf.link_id, conf.timestamp,
                                    conf.secret)])
    /\ header_is_signed(g.header)
    /\ body_length(g.header) =
          body_length(set_is_signed(f.header, FALSE)) + SIGNATURE_LENGTH

\* C11: signing a V2 frame with {link_id, timestamp, secret} sets the SIGNED
\* bit of incompat_flags and leaves the other bits, attaches the signature
\* {link_id, timestamp, digest of the signing input}; afterwards the header
\* is signed and body_length is 13 more than that of the unsigned frame.
C11_SigningSetsFlagAndAttaches ==
    [][(SigningStep /\ Unwrap(frame).header.version = "V2")
          => SignedAs(Unwrap(frame), last'.conf, Unwrap(frame'))]_vars

\* C12: a V1 frame passed through a signing operation comes back without an
\* error and is left as it was: header, payload, checksum and (absent)
\* signature.
C12_V1SigningIsNoOp ==
    [][(SigningStep /\ Unwrap(frame).header.version = "V1")
          => /\ frame' = frame
             /\ ~IsSome(Unwrap(frame').signature)
             /\ last'.op = "add_signature" => last'.result = <<"Ok">>]_vars

\* C13: a V2 builder that carries signature sig when build is called yields
\* a signed frame: its signature is Some(sig) and its header has SIGNED set.
C13_SignedBuilderBuildsSignedFrame ==
    (last.op = "build" /\ IsSome(last.signature)) =>
        LET f == Unwrap(frame)
        IN  /\ f.signature = last.signature
            /\ contains(f.header.incompat_flags, MAVLINK_IFLAG_SIGNED)

\* the setters that drop a signature attached to the builder
DropsSignature == {"sequence", "system_id", "message_id", "payload"}

\* a step of one of the setters named, taken on a builder with a signature
DroppingStep ==
    /\ IsSome(fb)
    /\ IsSome(fb')
    /\ last'.op \in DropsSignature
    /\ last'.had_signature

\* FrameBuilder::build taken on the builder such a setter has just returned
BuildAfterDrop ==
    /\ IsSome(fb)
    /\ IsSome(frame')
    /\ last.op \in DropsSignature
    /\ last.had_signature
    /\ last'.op = "build"

\* C14: sequence, system_id, message_id or payload called on a builder with a
\* signature yield a builder without one (message_id also clears crc_extra),
\* and the frame built from it has no signature and SIGNED clear.
C14_SettersDropSignature ==
    [][/\ DroppingStep =>
            /\ ~IsSome(Unwrap(fb').signature)
            /\ last'.op = "message_id" => ~IsSome(Unwrap(fb').crc_extra)
       /\ BuildAfterDrop =>
            /\ ~IsSome(Unwrap(frame').signature)
            /\ ~contains(Unwrap(frame').header.incompat_flags,
                         MAVLINK_IFLAG_SIGNED)]_vars

\* C15: incompat_flags(flags) on a V2 builder leaves the header builder with
\* flags, except for SIGNED, which is set when the builder carries a
\* signature and dropped when it does not, whatever flags says.
C15_IncompatFlagsFollowSignature ==
    [][(IsSome(fb) /\ IsSome(fb') /\ last'.op = "incompat_flags") =>
          Unwrap(fb').header_builder.incompat_flags =
              Some(set(last'.arg, MAVLINK_IFLAG_SIGNED,
                       IsSome(Unwrap(fb).signature)))]_vars

(***************************************************************************)
(* Claims about the compatibility processor                                *)
(***************************************************************************)
\* a step of process_incoming / process_outgoing on the frame in hand
ProcessStep ==
    /\ IsSome(frame)
    /\ IsSome(frame')
    /\ nops' = nops + 1
    /\ last'.op = "process"

\* the configured incompat_flags after ignore_signature was applied: with
\* ignore_signature the SIGNED bit (bit 0) says whether f carries a signature
Expected(proc, f) ==
    LET configured == Unwrap(proc.incompat_flags)
    IN  IF proc.ignore_signature
        THEN (configured \div 2) * 2 + (IF IsSome(f.signature) THEN 1 ELSE 0)
        ELSE configured

\* the outcome of the incompat-flag check of Reject on frame f
RejectCheck(proc, f) ==
    IF IsSome(proc.incompat_flags)
         /\ Expected(proc, f) /= f.header.incompat_flags
    THEN <<"Incompatible", Expected(proc, f), f.header.incompat_flags>>
    ELSE <<"Ok">>

\* C18: under Reject a V2 frame is rejected with Incompatible{expected,
\* actual} exactly when the configured incompat_flags, after ignore_signature
\* is applied, differ from the frame's; the frame is not modified, accepted
\* or rejected.
C18_RejectChecksAndKeepsFrame ==
    [][(ProcessStep /\ last'.strategy = "Reject"
           /\ Unwrap(frame).header.version = "V2")
          => /\ last'.result = RejectCheck(last'.proc, Unwrap(frame))
             /\ frame' = frame]_vars

C18_Witness ==
    /\ last.op = "process"
    /\ last.strategy = "Reject"
    /\ last.proc.ignore_signature
    /\ last.proc.incompat_flags = Some(3)
    /\ IsSome(Unwrap(frame).signature)
    /\ Unwrap(frame).header.incompat_flags = 1
    /\ last.result = <<"Incompatible", 3, 1>>

\* C19: under RejectSet the incompat-flag check is that of Reject; when it
\* succeeds compat_flags is overwritten with the configured value and nothing
\* else changes, when it fails the frame is left as it was.
C19_RejectSetWritesOnSuccessOnly ==
    [][(ProcessStep /\ last'.strategy = "RejectSet"
           /\ Unwrap(frame).header.version = "V2")
          => LET f == Unwrap(frame)
                 proc == last'.proc
             IN  /\ last'.result = RejectCheck(proc, f)
                 /\ IF last'.result = <<"Ok">>
                    THEN Unwrap(frame') =
                           [f EXCEPT !.header.compat_flags =
                               UnwrapOr(proc.compat_flags, @)]
                    ELSE frame' = frame]_vars

\* C20: Enforce and EnforceProxy never reject; afterwards a V2 frame has the
\* configured incompat_flags, with SIGNED following the signature when
\* ignore_signature is set, and compat_flags is the configured value under
\* Enforce and untouched under EnforceProxy. A field that is not configured
\* is left alone.
C20_EnforceOverwrites ==
    [][(ProcessStep /\ last'.strategy \in {"Enforce", "EnforceProxy"}
           /\ Unwrap(frame).header.version = "V2")
          => LET f == Unwrap(frame)
                 g == Unwrap(frame')
                 proc == last'.proc
             IN  /\ last'.result = <<"Ok">>
                 /\ g.header.incompat_flags =
                       IF IsSome(proc.incompat_flags) THEN Expected(proc, f)
                       ELSE f.header.incompat_flags
                 /\ g.header.compat_flags =
                       IF last'.strategy = "Enforce"
                       THEN UnwrapOr(proc.compat_flags, f.header.compat_flags)
                       ELSE f.header.compat_flags
                 /\ g = [f EXCEPT !.header.incompat_flags = g.header.incompat_flags,
                                  !.header.compat_flags = g.header.compat_flags]]_vars

C20_Witness ==
    /\ last.op = "process"
    /\ last.strategy = "Enforce"
    /\ last.proc = [incompat_flags |-> Some(3), compat_flags |-> Some(4),
                    ignore_signature |-> TRUE]
    /\ ~IsSome(Unwrap(frame).signature)
    /\ Unwrap(frame).header.incompat_flags = 2
    /\ Unwrap(frame).header.compat_flags = 4

\* C21: a V1 frame passes through the processor untouched and without error
\* under every strategy and configuration, and under Proxy every frame, V1
\* or V2, is neither modified nor rejected.
C21_V1AndProxyPassThrough ==
    [][(ProcessStep /\ (Unwrap(frame).header.version = "V1"
                           \/ last'.strategy = "Proxy"))
          => /\ last'.result = <<"Ok">>
             /\ frame' = frame]_vars

C21_Witness ==
    /\ last.op = "process"
    /\ last.strategy = "Enforce"
    /\ last.proc = [incompat_flags |-> Some(3), compat_flags |-> Some(4),
                    ignore_signature |-> FALSE]
    /\ Unwrap(frame).header.version = "V1"
    /\ last.result = <<"Ok">>

\* C34: with ignore_signature set the SIGNED bit is neither compared with nor
\* taken from the configured flags: a frame is rejected only when the flags
\* differ in another bit, and after processing under any strategy the SIGNED
\* bit of the frame's header says whether the frame carries a signature.
C34_IgnoreSignatureFollowsFrame ==
    [][(ProcessStep /\ last'.proc.ignore_signature)
          => /\ last'.result /= <<"Ok">>
                  => (last'.result[2] \div 2) /= (last'.result[3] \div 2)
             /\ contains(Unwrap(frame').header.incompat_flags, MAVLINK_IFLAG_SIGNED)
                  <=> IsSome(Unwrap(frame').signature)]_vars

(***************************************************************************)
(* Claims about version conversions                                        *)
(***************************************************************************)
\* C29: conversion to the versioned form V succeeds exactly when the runtime
\* version is V and fails with InvalidVersion{expected: V, actual: version}
\* otherwise (the marker Versionless accepts both versions); a successful
\* conversion and every conversion to the versionless form leave each
\* runtime field, the version included, as it was.
C29_ConversionChecksVersionOnly ==
    /\ last.op = "try_to_versioned" =>
          LET header == Unwrap(frame).header
          IN  IF last.tag = "Versionless" \/ header.version = last.tag
              THEN last.result = <<"Ok", header>>
              ELSE last.result = <<"Err", "InvalidVersion", last.tag, header.version>>
    /\ last.op = "to_versionless" => last.result = Unwrap(frame).header

\* a signed V2 header was refused as V1
C29_Witness ==
    /\ last.op = "try_to_versioned"
    /\ last.tag = "V1"
    /\ Unwrap(frame).header.version = "V2"
    /\ Unwrap(frame).header.incompat_flags = 1
    /\ last.result = <<"Err", "InvalidVersion", "V1", "V2">>

(***************************************************************************)
(* TimeSpec: a MavTimestamp made and changed through its public            *)
(* constructors and setters. A u64 is held as its 8 little-endian bytes.   *)
(***************************************************************************)
SIGNATURE_TIMESTAMP_OFFSET == 1420070400

\* a number below 2^31 as a u64
u64(n) == [i \in 1..8 |-> IF i <= 4 THEN (n \div (256 ^ (i - 1))) % 256 ELSE 0]

\* u64 arithmetic: the wrapped result and whether the exact one was out of
\* range
u64_mul(x, k) ==
    LET carry[i \in 0..8] ==
            IF i = 0 THEN 0 ELSE (x[i] * k + carry[i - 1]) \div 256
    IN  [value |-> [i \in 1..8 |-> (x[i] * k + carry[i - 1]) % 256],
         overflow |-> carry[8] /= 0]

u64_add(x, y) ==
    LET carry[i \in 0..8] ==
            IF i = 0 THEN 0 ELSE (x[i] + y[i] + carry[i - 1]) \div 256
    IN  [value |-> [i \in 1..8 |-> (x[i] + y[i] + carry[i - 1]) % 256],
         overflow |-> carry[8] /= 0]

u64_sub(x, y) ==
    LET borrow[i \in 0..8] ==
            IF i = 0 THEN 0
            ELSE IF x[i] - y[i] - borrow[i - 1] < 0 THEN 1 ELSE 0
    IN  [value |-> [i \in 1..8 |-> (256 + x[i] - y[i] - borrow[i - 1]) % 256],
         overflow |-> borrow[8] /= 0]

u64_div(x, k) ==
    LET rem[i \in 1..9] ==
            IF i = 9 THEN 0 ELSE (rem[i + 1] * 256 + x[i]) % k
    IN  [i \in 1..8 |-> (rem[i + 1] * 256 + x[i]) \div k]

\* SIGNATURE_TIMESTAMP_OFFSET * 10u64.pow(6)
OffsetMillis ==
    LET ten(x) == u64_mul(x, 10).value
    IN  ten(ten(ten(ten(ten(ten(u64(SIGNATURE_TIMESTAMP_OFFSET)))))))

\* the outcome of an arithmetic expression: a build with overflow checks
\* panics when the exact result is out of range, a build without them goes on
\* with the wrapped value
checked(overflow, checks, value) ==
    IF overflow /\ checks THEN [status |-> "panic"]
    ELSE [status |-> "ok", value |-> value]

\* MavTimestamp::from_raw_u64: value & 0xffffffffffff
from_raw_u64(value) ==
    [i \in 1..8 |-> IF i <= SIGNATURE_TIMESTAMP_LENGTH THEN value[i] ELSE 0]

\* MavTimestamp::set_raw
set_raw(raw) == raw

\* MavTimestamp::from_bytes, on the whole range of raw
timestamp_from_bytes(bytes) == bytes \o <<0, 0>>

\* MavTimestamp::to_bytes_array, on the whole range of raw
timestamp_to_bytes_array(raw) == SubSeq(raw, 1, SIGNATURE_TIMESTAMP_LENGTH)

\* MavTimestamp::millis_mavlink
millis_mavlink(raw, checks) ==
    LET product == u64_mul(raw, 10)
    IN  checked(product.overflow, checks, product.value)

\* MavTimestamp::set_millis_mavlink
set_millis_mavlink(millis, checks) == [status |-> "ok", value |-> u64_div(millis, 10)]

\* MavTimestamp::millis
millis(raw, checks) ==
    LET product == u64_mul(raw, 10)
        sum == u64_add(product.value, OffsetMillis)
    IN  checked(product.overflow \/ sum.overflow, checks, sum.value)

\* MavTimestamp::set_millis
set_millis(value, checks) ==
    LET difference == u64_sub(value, OffsetMillis)
    IN  IF difference.overflow /\ checks THEN [status |-> "panic"]
        ELSE set_millis_mavlink(difference.value, checks)

\* MavTimestamp::from_millis
from_millis(value, checks) == set_millis(value, checks)

\* the u64 values handed to constructors and setters: small ones, ones
\* around 2^48 and beyond, 2^48 - 1 and u64::MAX
U64Values ==
    {[i \in 1..8 |-> IF i = 1 THEN low ELSE IF i \in high THEN 255 ELSE 0] :
        low \in {0, 7, 255}, high \in SUBSET {3, 6, 7, 8}}
    \cup {[i \in 1..8 |-> IF i <= 6 THEN 255 ELSE 0], [i \in 1..8 |-> 255]}

\* MavTimestamp::default()
NoTimestamp == [op |-> "default", status |-> "ok", raw |-> u64(0)]

TimeInit ==
    /\ fb = None
    /\ frame = None
    /\ last = NoTimestamp
    /\ nops = 0
    /\ SeqIdle
    /\ IoIdle

\* the timestamp after a constructor or setter has returned or panicked; a
\* panic leaves no timestamp behind
TsResult(op, arg, checks, r) ==
    [op |-> op, arg |-> arg, checks |-> checks, status |-> r.status,
     raw |-> IF r.status = "ok" THEN r.value ELSE u64(0)]

TsFromRawU64 ==
    /\ \E value \in U64Values :
          last' = TsResult("from_raw_u64", value, FALSE,
                           [status |-> "ok", value |-> from_raw_u64(value)])
    /\ UNCHANGED <<fb, frame, nops, seqVars, ioVars>>

TsSetRaw ==
    /\ \E raw \in U64Values :
          last' = TsResult("set_raw", raw, FALSE,
                           [status |-> "ok", value |-> set_raw(raw)])
    /\ UNCHANGED <<fb, frame, nops, seqVars, ioVars>>

TsFromBytes ==
    /\ \E value \in U64Values :
          LET bytes == SubSeq(value, 1, SIGNATURE_TIMESTAMP_LENGTH)
          IN  last' = TsResult("from_bytes", bytes, FALSE,
                               [status |-> "ok",
                                value |-> timestamp_from_bytes(bytes)])
    /\ UNCHANGED <<fb, frame, nops, seqVars, ioVars>>

TsFromMillis ==
    /\ \E value \in U64Values, checks \in BOOLEAN :
          last' = TsResult("from_millis", value, checks, from_millis(value, checks))
    /\ UNCHANGED <<fb, frame, nops, seqVars, ioVars>>

TsSetMillis ==
    /\ \E value \in U64Values, checks \in BOOLEAN :
          last' = TsResult("set_millis", value, checks, set_millis(value, checks))
    /\ UNCHANGED <<fb, frame, nops, seqVars, ioVars>>

TsSetMillisMavlink ==
    /\ \E value \in U64Values, checks \in BOOLEAN :
          last' = TsResult("set_millis_mavlink", value, checks,
                           set_millis_mavlink(value, checks))
    /\ UNCHANGED <<fb, frame, nops, seqVars, ioVars>>

TimeNext ==
    \/ TsFromRawU64
    \/ TsSetRaw
    \/ TsFromBytes
    \/ TsFromMillis
    \/ TsSetMillis
    \/ TsSetMillisMavlink

TimeSpec == TimeInit /\ [][TimeNext]_vars

\* raw is below 2^48
Is48Bit(raw) == raw[7] = 0 /\ raw[8] = 0

\* C38: every timestamp made by a public constructor or setter holds a raw
\* value below 2^48, and decoding the 6 bytes it is encoded to gives the
\* same timestamp.
C38_TimestampIs48Bit ==
    last.status = "ok" =>
       /\ Is48Bit(last.raw)
       /\ timestamp_from_bytes(timestamp_to_bytes_array(last.raw)) = last.raw

\* C39: for a timestamp with a 48-bit raw value, millis_mavlink() and
\* millis() return raw * 10 and raw * 10 + 1420070400 * 10^6 without
\* overflow; from_millis(m), set_millis(m) and set_millis_mavlink(m) are
\* defined for every u64 m, and after from_millis(m) or set_millis(m),
\* millis() returns m rounded down to a multiple of 10.
C39_MillisConversions ==
    /\ (last.status = "ok" /\ Is48Bit(last.raw)) =>
          \A checks \in BOOLEAN :
             /\ millis_mavlink(last.raw, checks).status = "ok"
             /\ ~u64_mul(last.raw, 10).overflow
             /\ millis(last.raw, checks).status = "ok"
             /\ ~u64_add(u64_mul(last.raw, 10).value, OffsetMillis).overflow
    /\ last.op \in {"from_millis", "set_millis", "set_millis_mavlink"} =>
          last.status = "ok"
    /\ last.op \in {"from_millis", "set_millis"} =>
          /\ millis(last.raw, last.checks).status = "ok"
          /\ millis(last.raw, last.checks).value
               = u64_mul(u64_div(last.arg, 10), 10).value

(***************************************************************************)
(* Signature calculation over a digest provider that is kept between calls *)
(***************************************************************************)
\* bound on the chunks a caller digests between two calculations
MaxDigests == 2

\* a provider whose reset forgets nothing
MavSha256_keep(hasher) == hasher

\* MavSha256::reset. The provider's state is written as the bytes handed to
\* the hasher since it was last reset
MavSha256_reset(hasher) == <<>>

\* MavSha256::digest
MavSha256_digest(hasher, bytes) == hasher \o bytes

\* MavSha256::signature: the first SIGNATURE_VALUE_LENGTH bytes of the hash
\* of everything digested
MavSha256_signature(hasher) == sign_produce(sign_digest(sign_reset, hasher))

\* Signer::calculate with the provider: the provider afterwards and the value
Signer_calculate(hasher, f, link_id, timestamp, key) ==
    LET s0 == MavSha256_reset(hasher)
        s1 == MavSha256_digest(s0, key)
        s2 == MavSha256_digest(s1, decode(f.header))
        s3 == MavSha256_digest(s2, f.payload.bytes)
        s4 == MavSha256_digest(s3, u16_to_le_bytes(f.checksum))
        s5 == MavSha256_digest(s4, <<link_id>>)
        s6 == MavSha256_digest(s5, to_bytes_array(timestamp))
    IN  [hasher |-> s6, result |-> <<"Ok", MavSha256_signature(s6)>>]

\* Frame::calculate_signature with the provider
Frame_calculate_signature(hasher, f, secret_key) ==
    IF ~IsSome(f.signature)
    THEN [hasher |-> hasher, result |-> <<"Err", "SignatureFieldsAreMissing">>]
    ELSE LET s0 == MavSha256_reset(hasher)
             s1 == MavSha256_digest(s0, secret_key)
             s2 == MavSha256_digest(s1, decode(f.header))
             s3 == MavSha256_digest(s2, f.payload.bytes)
             s4 == MavSha256_digest(s3, u16_to_le_bytes(f.checksum))
             s5 == MavSha256_digest(s4, <<Unwrap(f.signature).link_id>>)
             s6 == MavSha256_digest(s5, to_bytes_array(Unwrap(f.signature).timestamp))
         IN  [hasher |-> s6, result |-> <<"Ok", MavSha256_signature(s6)>>]

\* link ids and timestamps whose bytes differ from one another: 197121 is
\* 01 02 03 00 00 00 in little-endian
SignLinkIds == {0, 9}
SignTimestamps == {0, 197121}

\* the frames signed: V2 frames with and without signature fields, with an
\* empty and a non-empty payload, and a V1 frame
SignFrames ==
    LET v1 == build(IoBuilder("V1", 1, <<7, 8>>))
        v2 == build(IoBuilder("V2", 2, <<STX_V1, 0, 3>>))
        empty == build(IoBuilder("V2", 3, <<>>))
        fields == [link_id |-> 9, timestamp |-> 197121, value |-> Zeros(6)]
    IN  {v1, v2, empty,
         [v2 EXCEPT !.signature = Some(fields)],
         [empty EXCEPT !.header = set_is_signed(@, TRUE),
                       !.signature = Some([fields EXCEPT !.link_id = 0])]}

\* a provider fresh from MavSha256::default() and a frame in hand
SignInit ==
    /\ fb = None
    /\ frame \in {Some(f) : f \in SignFrames}
    /\ last = [op |-> "default", hasher |-> <<>>, digests |-> 0]
    /\ nops = 0
    /\ SeqIdle
    /\ IoIdle

\* the caller digests a chunk of its own with the provider
SgDigest ==
    /\ last.digests < MaxDigests
    /\ \E chunk \in {<<1>>, <<2, 3>>} :
          last' = [op |-> "digest", hasher |-> MavSha256_digest(last.hasher, chunk),
                   digests |-> last.digests + 1]
    /\ UNCHANGED <<fb, frame, nops, seqVars, ioVars>>

\* Signer::calculate for the frame in hand
SgCalculate ==
    /\ \E link_id \in SignLinkIds, timestamp \in SignTimestamps, key \in SecretKeys :
          LET r == Signer_calculate(last.hasher, Unwrap(frame), link_id, timestamp, key)
          IN  last' = [op |-> "calculate", before |-> last.hasher,
                       hasher |-> r.hasher, digests |-> 0, result |-> r.result,
                       key |-> key, link_id |-> link_id, timestamp |-> timestamp]
    /\ UNCHANGED <<fb, frame, nops, seqVars, ioVars>>

\* Frame::calculate_signature for the frame in hand
SgCalculateSignature ==
    /\ \E secret_key \in SecretKeys :
          LET f == Unwrap(frame)
              r == Frame_calculate_signature(last.hasher, f, secret_key)
          IN  last' = [op |-> "calculate_signature", before |-> last.hasher,
                       hasher |-> r.hasher,
                       digests |-> IF r.result[1] = "Ok" THEN 0 ELSE last.digests,
                       result |-> r.result, key |-> secret_key,
                       link_id |-> IF IsSome(f.signature)
                                   THEN Unwrap(f.signature).link_id ELSE 0,
                       timestamp |-> IF IsSome(f.signature)
                                     THEN Unwrap(f.signature).timestamp ELSE 0]
    /\ UNCHANGED <<fb, frame, nops, seqVars, ioVars>>

SignNext ==
    \/ SgDigest
    \/ SgCalculate
    \/ SgCalculateSignature

SignSpec == SignInit /\ [][SignNext]_vars

\* C40: a signature calculation that returns a value leaves the digest
\* provider holding exactly the secret key (32 bytes), the header bytes (10
\* for a MAVLink 2 header), the payload bytes, the checksum as 2 little-endian
\* bytes, the link id (1 byte) and the timestamp as 6 little-endian bytes, in
\* that order, whatever the provider had digested before; the value returned
\* is the 6-byte signature of those bytes
C40_SignatureFeed ==
    (last.op \in {"calculate", "calculate_signature"} /\ last.result[1] = "Ok") =>
        LET f == Unwrap(frame)
            t == last.timestamp
            feed == last.key
                    \o decode(f.header)
                    \o f.payload.bytes
                    \o <<f.checksum % 256, f.checksum \div 256>>
                    \o <<last.link_id>>
                    \o <<t % 256, (t \div 256) % 256, (t \div 65536) % 256, 0, 0, 0>>
        IN  /\ last.hasher = feed
            /\ Len(last.key) = 32
            /\ f.header.version = "V2" => Len(decode(f.header)) = 10
            /\ Len(feed) = 32 + size(f.header) + Len(f.payload.bytes) + 2 + 1 + 6
            /\ last.result[2] = sign_produce(sign_digest(sign_reset, feed))
            /\ Len(last.result[2]) = 6
            /\ last.op = "calculate" =>
                  last.result[2] = calculate(f, last.link_id, t, last.key)
            /\ last.op = "calculate_signature" =>
                  last.result = calculate_signature(f, last.key)

\* a signature calculated for a frame with a payload by a provider that had
\* digested other bytes before
C40_Witness ==
    /\ last.op = "calculate"
    /\ last.before /= <<>>
    /\ Unwrap(frame).payload.bytes /= <<>>
    /\ last.link_id = 9
    /\ last.timestamp = 197121

(***************************************************************************)
(* Claims about the checksum                                               *)
(***************************************************************************)
\* a successful call of one of the operations that change a frame in place:
\* signing, signature removal, compat processing, update
MutationStep ==
    /\ IsSome(frame)
    /\ IsSome(frame')
    /\ nops' = nops + 1
    /\ \/ last'.op \in {"sign", "remove_signature", "update"}
       \/ last'.op \in {"add_signature", "process"} /\ last'.result = <<"Ok">>

\* C32: a frame whose checksum is the CRC of its header bytes after the
\* magic byte, its payload and CRC_EXTRA still has such a checksum after a
\* successful signing, signature removal, compat processing or update with
\* the same CRC_EXTRA.
C32_MutationsKeepChecksumValid ==
    [][MutationStep /\ valid_checksum(Unwrap(frame))
          => valid_checksum(Unwrap(frame'))]_vars

(***************************************************************************)
(* Claims about the message id                                             *)
(***************************************************************************)
\* C33: the header of a built frame has a message id that fits its wire
\* field, at most 255 for V1 and below 2^24 for V2, and the bytes the header
\* is encoded to decode to the same message id.
C33_BuiltMessageIdFitsWireField ==
    IsSome(frame) =>
       LET header == Unwrap(frame).header
       IN  /\ header.version = "V1" => header.message_id <= 255
           /\ header.version = "V2" => header.message_id < 16777216
           /\ try_from_slice(decode(header)).message_id = header.message_id

(***************************************************************************)
(* Claims about the secret key                                             *)
(***************************************************************************)
\* C30: the Debug output of a secret key, and of a SignatureConf holding
\* one, does not depend on the key bytes: with any other key in its place
\* the output is the same.
C30_DebugHidesKey ==
    last.op = "debug" =>
       \A key \in SecretKeys :
          /\ Debug_SecretKey(last.revision, key) = last.secret
          /\ Debug_SignatureConf([last.conf EXCEPT !.secret = key]) = last.text

(***************************************************************************)
(* Claims about a frame built from chosen field values                     *)
(***************************************************************************)
\* the header of the built frame carries the values the setters were given
FieldsAsSet(f, settings) ==
    /\ f.header.version = settings.version
    /\ f.header.sequence = settings.sequence
    /\ f.header.system_id = settings.system_id
    /\ f.header.component_id = settings.component_id
    /\ f.header.message_id = settings.message_id

C17_UpgradeKeepsFieldsAndPayload ==
    [][(last.op = "build" /\ last'.op = "upgrade") =>
          LET f == Unwrap(frame)
              g == Unwrap(frame')
          IN  /\ f.header.version = "V1"
              /\ g.header.version = "V2"
              /\ g.header.incompat_flags = 0
              /\ g.header.compat_flags = 0
              /\ g.signature = None
              /\ g.header.sequence = f.header.sequence
              /\ g.header.system_id = f.header.system_id
              /\ g.header.component_id = f.header.component_id
              /\ g.header.message_id = f.header.message_id
              /\ g.payload.bytes = f.payload.bytes
              /\ g.header.payload_length = Len(g.payload.bytes)
              /\ g.checksum =
                    crc_digest(crc16mcrf4cc,
                               SubSeqFrom(dump_v2_bytes(g.header), 2)
                                  \o g.payload.bytes
                                  \o <<last.settings.crc_extra>>)
              /\ g.checksum = calculate_crc(g, last.settings.crc_extra)]_vars

C17_Witness ==
    /\ last.op = "upgrade"
    /\ Unwrap(frame).header.version = "V2"
    /\ Len(Unwrap(frame).payload.bytes) = PAYLOAD_MAX_SIZE
    /\ Unwrap(frame).header.message_id = 300

====
